---- MODULE Spec2Model ----
(***************************************************************************)
(* The application lifecycle engine of the STF scholarship portal backend: *)
(* StudentService (src/services/student.service.ts) and AdminService       *)
(* (services/admin.service.ts) over the shared relational store.           *)
(*                                                                         *)
(* Every service method is a sequence of awaited store calls.  The module  *)
(* states each method twice, from the same operators:                      *)
(*   - as one action, the whole handler run alone, which also records the  *)
(*     answer the controller gives (Spec);                                 *)
(*   - as one action per store round trip that matters, so that requests   *)
(*     interleave at the awaits: the reads that decide the guards, then    *)
(*     the write (a prisma.$transaction callback or a single               *)
(*     create/update), which commits atomically.  A request in flight      *)
(*     keeps what it read in its slot of reqs (SpecRace).                  *)
(***************************************************************************)
EXTENDS Integers, Sequences, FiniteSets, TLC

\* ------------------------------------------------------------------------
\* Bounds of the model
\* ------------------------------------------------------------------------
\* application rows the store may hold
MaxApps == 2
\* requests in flight at the same time
MaxReq == 2
\* ids in one bulkUpdate batch
MaxBatch == 2
\* writes to one review_scores row: its creation and its updates
MaxScoreWrites == 2
\* application periods ever created
MaxPeriods == 2
\* documents uploaded to one application
MaxAppDocs == 1
\* the documents an application holds where draft edits, uploads and the
\* submission interleave
MaxDraftDocs == 2
\* history rows of one application
MaxHist == 5
\* application rows of the store while requests interleave on one application
MaxRaceApps == 1
\* ids in one bulkUpdate batch when it runs over the applications of two students
MaxBulkBatch == 3

NULL == "NULL"

Req == 1..MaxReq
AppIds == 1..MaxApps
\* the student users; each owns one StudentProfile (userId is unique)
Users == {"s1"}
\* the students of the specification in which two students apply
BulkUsers == {"s1", "s2"}
\* values of a profile's fullName
Names == {"n1", "n2"}
\* the administrators; the one behind request slot r is AdminOf(r)
AdminIds == <<"admin1", "admin2", "admin3", "admin4">>
AdminOf(r) == AdminIds[r]
Admins == {"admin1"}
\* an optional number is a sequence: <<>> when absent, <<n>> when present
Absent == <<>>
\* disbursedAmount values a caller may send: absent, zero, a positive amount
Amounts == {Absent, <<0>>, <<1>>}
\* a timestamp column that is still null
NoTime == 0
\* new Date() in a write to an application: the time is the ordinal of the
\* history row the same transaction appends, so a later write to the
\* application carries a later time
Now(rows) == Len(rows) + 1

Statuses == {"DRAFT", "PENDING", "UNDER_REVIEW", "APPROVED", "REJECTED", "DISBURSED"}
\* FEE_STRUCTURE and one of the other types (BALANCE_STATEMENT, SUPPORT_LETTER
\* and OTHER_EVIDENCE are treated alike by the services)
ApplicationDocumentTypes == {"FEE_STRUCTURE", "BALANCE_STATEMENT"}
RequiredProfileDocumentTypes == {"NATIONAL_ID", "ADMISSION_LETTER"}
ProfileDocumentTypes == RequiredProfileDocumentTypes

VARIABLES
    profiles,       \* student_profiles: userId -> row (exists: whether it was created)
    profileDocs,    \* profile_documents rows
    apps,           \* applications rows, in creation order; the index is the id
    history,        \* application_status_history rows of each application, in commit order
    appDocs,        \* application_documents of each application: their types, in upload order
    links,          \* application_profile_document_links rows
    notifications,  \* per application: the set of in-app notifications handed to the sink
    emails,         \* per application: the set of status emails handed to the sink
    snapshotWrites, \* per application: how many times its snapshot columns were written
    reviewScores,   \* review_scores rows, in insertion order
    applicationPeriods, \* application_periods: the committed rows, id -> row
    reqs,           \* the requests in flight: slot -> what the handler holds
    response        \* the answer of the last handler that ran alone

vars == <<profiles, profileDocs, apps, history, appDocs, links, notifications,
          emails, snapshotWrites, reviewScores, applicationPeriods, reqs, response>>

\* the store
store == <<profiles, profileDocs, apps, history, appDocs, links, notifications,
           emails, snapshotWrites, reviewScores, applicationPeriods>>

\* ------------------------------------------------------------------------
\* types/api.types.ts: the state machine table
\* ------------------------------------------------------------------------
VALID_STATUS_TRANSITIONS ==
    [DRAFT |-> {"PENDING"},
     PENDING |-> {"UNDER_REVIEW"},
     UNDER_REVIEW |-> {"APPROVED", "REJECTED"},
     APPROVED |-> {"DISBURSED"},
     REJECTED |-> {},
     DISBURSED |-> {}]

isValidStatusTransitionLax(from, to) ==
    \/ (from \in DOMAIN VALID_STATUS_TRANSITIONS /\ to \in VALID_STATUS_TRANSITIONS[from])
    \/ (from = "PENDING" /\ to = "APPROVED")

isValidStatusTransition(from, to) ==
    IF from \in DOMAIN VALID_STATUS_TRANSITIONS
    THEN to \in VALID_STATUS_TRANSITIONS[from]
    ELSE FALSE

ACTIVE_APPLICATION_STATUSES == {"DRAFT", "PENDING", "UNDER_REVIEW"}

\* utils/validators.ts: STF-<year>-<sequence padded to 5>; the year is the
\* same for every call of one run, the padding keeps distinct sequence
\* numbers distinct
generateApplicationNumber(sequenceNumber) == <<"STF", sequenceNumber>>

\* ------------------------------------------------------------------------
\* Requests and answers
\* ------------------------------------------------------------------------
NoPeriods == <<>>

Idle == [op |-> "idle", pc |-> "idle"]
Free(r) == reqs[r].pc = "idle"

\* controllers: the error code a handler's catch block answers with
ErrorCode(op, message) ==
    CASE op = "updateApplicationStatus" ->
            IF message = "Invalid status transition"
            THEN "INVALID_STATE_TRANSITION" ELSE "VALIDATION_ERROR"
      [] op = "submitApplication" ->
            IF message = "Only draft applications can be submitted"
            THEN "INVALID_STATE_TRANSITION" ELSE "VALIDATION_ERROR"
      [] op = "createDraft" -> "INTERNAL_SERVER_ERROR"
      [] op = "uploadApplicationDocument" -> "FILE_UPLOAD_FAILED"
      [] op = "scoreApplication" ->
            IF message = "Application not found"
            THEN "RESOURCE_NOT_FOUND" ELSE "VALIDATION_ERROR"
      [] OTHER -> "VALIDATION_ERROR"

\* the answer to a call: message is "OK", or the error the service threw
Answer(op, message) ==
    [op |-> op, ok |-> message = "OK", message |-> message,
     code |-> IF message = "OK" THEN "OK" ELSE ErrorCode(op, message)]

NoAnswer == Answer("none", "OK")

AppExists(a) == a \in 1..Len(apps)

OwnedAppOfAnyone(u, a) == AppExists(a)

\* prisma.application.findFirst({ where: { id, studentProfileId: profile.id } })
OwnedApp(u, a) == AppExists(a) /\ apps[a].studentProfileId = u

\* ------------------------------------------------------------------------
\* StudentService: profile completeness and eligibility
\* ------------------------------------------------------------------------
\* checkProfileComplete: the required scalar fields and the identification
checkProfileComplete(data) ==
    /\ data.fullName # NULL /\ data.fullName # ""
    /\ (data.nationalIdNumber # NULL \/ data.passportNumber # NULL)

\* the required fields of the evaluator that the profile row of the model
\* leaves out (dateOfBirth .. admissionYear): columns that are always filled
OtherRequiredFields == 9

\* Math.round(100 * completedItems / totalItems)
RoundedPercentageDown(completedItems, totalItems) == (100 * completedItems) \div totalItems

RoundedPercentage(completedItems, totalItems) ==
    (200 * completedItems + totalItems) \div (2 * totalItems)

uploadedDocumentTypes(docs, u) ==
    {d.documentType : d \in {x \in docs : x.studentProfileId = u}}

\* getProfileCompleteness over the profile row and the document rows given
profileCompleteness(profile, docs, u) ==
    IF ~profile.exists
    THEN [isComplete |-> FALSE,
          completenessPercentage |-> 0,
          missingFields |-> {"Profile not created"},
          missingDocuments |-> RequiredProfileDocumentTypes]
    ELSE LET missingFields ==
                 (IF profile.fullName = NULL \/ profile.fullName = ""
                  THEN {"Full Name"} ELSE {})
                 \cup
                 (IF profile.nationalIdNumber = NULL /\ profile.passportNumber = NULL
                  THEN {"National ID or Passport"} ELSE {})
             missingDocuments == RequiredProfileDocumentTypes \ uploadedDocumentTypes(docs, u)
             totalItems == OtherRequiredFields + 1 + 1
                           + Cardinality(RequiredProfileDocumentTypes)
             completedItems == OtherRequiredFields + 1 + 1 - Cardinality(missingFields)
                               + Cardinality(RequiredProfileDocumentTypes)
                               - Cardinality(missingDocuments)
         IN [isComplete |-> missingFields = {} /\ missingDocuments = {},
             completenessPercentage |-> RoundedPercentage(completedItems, totalItems),
             missingFields |-> missingFields,
             missingDocuments |-> missingDocuments]

getProfileCompleteness(u) == profileCompleteness(profiles[u], profileDocs, u)

activeApplications(u) ==
    {a \in 1..Len(apps) : apps[a].studentProfileId = u
                          /\ apps[a].status \in ACTIVE_APPLICATION_STATUSES}

checkEligibility(u) ==
    IF ~profiles[u].exists
    THEN [canApply |-> FALSE, reason |-> "Profile not found. Please create a profile first.",
          hasActiveApplication |-> FALSE]
    ELSE IF ~getProfileCompleteness(u).isComplete
    THEN [canApply |-> FALSE, reason |-> "Profile is incomplete.",
          hasActiveApplication |-> FALSE]
    ELSE IF activeApplications(u) # {}
    THEN [canApply |-> FALSE, reason |-> "You already have an active application.",
          hasActiveApplication |-> TRUE]
    ELSE [canApply |-> TRUE, reason |-> "You are eligible to submit a new application.",
          hasActiveApplication |-> FALSE]

\* ------------------------------------------------------------------------
\* StudentService.createDraft
\* ------------------------------------------------------------------------
createDraftGuardProfileOnly(u) ==
    IF ~profiles[u].exists THEN "Profile not found"
    ELSE IF ~getProfileCompleteness(u).isComplete THEN checkEligibility(u).reason
    ELSE "OK"

\* what the profile read and the eligibility check decide: the error
\* thrown, or "OK"
createDraftGuard(u) ==
    IF ~profiles[u].exists THEN "Profile not found"
    ELSE IF ~checkEligibility(u).canApply THEN checkEligibility(u).reason
    ELSE "OK"

\* the row tx.application.create inserts; hardshipNarrative stands for the
\* working fields, which come from the request
NewApplication(u, number) ==
    [studentProfileId |-> u,
     applicationNumber |-> number,
     status |-> "DRAFT",
     hardshipNarrative |-> "w1",
     submittedAt |-> NoTime,
     snapshotFullName |-> NULL,
     reviewedAt |-> NoTime,
     reviewedBy |-> NULL,
     disbursedAmount |-> Absent,
     disbursedAt |-> NoTime]

NumberTakenNever(number) == FALSE

\* applicationNumber is unique in the store
NumberTaken(number) == \E a \in 1..Len(apps) : apps[a].applicationNumber = number

\* the insert transaction: the application row and its first history row
createDraftTransaction(u, number) ==
    /\ apps' = Append(apps, NewApplication(u, number))
    /\ history' = Append(history,
           <<[previousStatus |-> NULL, newStatus |-> "DRAFT",
              changedBy |-> u, autoGenerated |-> TRUE]>>)
    /\ appDocs' = Append(appDocs, <<>>)
    /\ notifications' = Append(notifications, {})
    /\ emails' = Append(emails, {})
    /\ snapshotWrites' = Append(snapshotWrites, 0)

\* the whole handler, alone
createDraft(u) ==
    /\ createDraftGuard(u) = "OK" => Len(apps) < MaxApps
    /\ IF createDraftGuard(u) # "OK"
       THEN /\ response' = Answer("createDraft", createDraftGuard(u))
            /\ UNCHANGED <<apps, history, appDocs, notifications, emails, snapshotWrites>>
       ELSE IF NumberTaken(generateApplicationNumber(Len(apps) + 1))
       THEN /\ response' = Answer("createDraft", "Unique constraint failed")
            /\ UNCHANGED <<apps, history, appDocs, notifications, emails, snapshotWrites>>
       ELSE /\ createDraftTransaction(u, generateApplicationNumber(Len(apps) + 1))
            /\ response' = Answer("createDraft", "OK")
    /\ UNCHANGED <<reviewScores, applicationPeriods, profiles, profileDocs, links, reqs>>

\* requests that may still insert an application row
PendingInserts == Cardinality({r \in Req : reqs[r].op = "createDraft"})

\* step 1: the profile read and the eligibility check
createDraftCheck(r, u) ==
    /\ Free(r)
    /\ Len(apps) + PendingInserts < MaxApps
    /\ reqs' = [reqs EXCEPT ![r] =
            IF createDraftGuard(u) # "OK" THEN Idle
            ELSE [op |-> "createDraft", pc |-> "count", userId |-> u]]
    /\ UNCHANGED <<store, response>>

\* step 2: const applicationCount = await prisma.application.count()
createDraftCount(r) ==
    /\ reqs[r].op = "createDraft" /\ reqs[r].pc = "count"
    /\ reqs' = [reqs EXCEPT ![r] =
            [op |-> "createDraft", pc |-> "insert", userId |-> reqs[r].userId,
             applicationNumber |-> generateApplicationNumber(Len(apps) + 1)]]
    /\ UNCHANGED <<store, response>>

\* step 3: the insert transaction; a duplicate applicationNumber aborts it
createDraftInsert(r) ==
    /\ reqs[r].op = "createDraft" /\ reqs[r].pc = "insert"
    /\ IF NumberTaken(reqs[r].applicationNumber)
       THEN UNCHANGED <<apps, history, appDocs, notifications, emails, snapshotWrites>>
       ELSE createDraftTransaction(reqs[r].userId, reqs[r].applicationNumber)
    /\ reqs' = [reqs EXCEPT ![r] = Idle]
    /\ UNCHANGED <<reviewScores, applicationPeriods, profiles, profileDocs, links, response>>

\* ------------------------------------------------------------------------
\* StudentService.uploadApplicationDocument
\* ------------------------------------------------------------------------
\* what the profile read, the application read and the DRAFT check decide
uploadApplicationDocumentGuard(u, a) ==
    IF ~profiles[u].exists THEN "Profile not found"
    ELSE IF ~OwnedApp(u, a) THEN "Application not found"
    ELSE IF apps[a].status # "DRAFT" THEN "Can only upload documents to draft applications"
    ELSE "OK"

\* the whole handler, alone
uploadApplicationDocument(u, a, documentType) ==
    /\ AppExists(a) => Len(appDocs[a]) < MaxAppDocs
    /\ response' = Answer("uploadApplicationDocument", uploadApplicationDocumentGuard(u, a))
    /\ IF uploadApplicationDocumentGuard(u, a) # "OK"
       THEN UNCHANGED appDocs
       ELSE appDocs' = [appDocs EXCEPT ![a] = Append(@, documentType)]
    /\ UNCHANGED <<reviewScores, applicationPeriods, profiles, profileDocs, apps, history, links, notifications,
                   emails, snapshotWrites, reqs>>

\* uploads to application a that passed their checks and will still create a row
PendingUploads(a) ==
    Cardinality({r \in Req : reqs[r].op = "uploadApplicationDocument"
                             /\ reqs[r].applicationId = a})

\* application a holds, with the uploads on their way, fewer than n documents
UploadsBelow(a, n) == AppExists(a) => Len(appDocs[a]) + PendingUploads(a) < n

\* step 1: the reads and the DRAFT check
uploadApplicationDocumentCheck(r, u, a, documentType) ==
    /\ Free(r)
    /\ reqs' = [reqs EXCEPT ![r] =
            IF uploadApplicationDocumentGuard(u, a) # "OK" THEN Idle
            ELSE [op |-> "uploadApplicationDocument", pc |-> "create",
                  applicationId |-> a, documentType |-> documentType]]
    /\ UNCHANGED <<store, response>>

\* step 2: prisma.applicationDocument.create
uploadApplicationDocumentCreate(r) ==
    /\ reqs[r].op = "uploadApplicationDocument" /\ reqs[r].pc = "create"
    /\ appDocs' = [appDocs EXCEPT ![reqs[r].applicationId] = Append(@, reqs[r].documentType)]
    /\ reqs' = [reqs EXCEPT ![r] = Idle]
    /\ UNCHANGED <<reviewScores, applicationPeriods, profiles, profileDocs, apps, history, links, notifications,
                   emails, snapshotWrites, response>>

\* ------------------------------------------------------------------------
\* StudentService.updateDraft
\* ------------------------------------------------------------------------
\* the values a student writes into the working field hardshipNarrative
Narratives == {"w1", "w2"}

\* what the profile read, the application read and the DRAFT check decide
updateDraftGuard(u, a) ==
    IF ~profiles[u].exists THEN "Profile not found"
    ELSE IF ~OwnedApp(u, a) THEN "Application not found"
    ELSE IF apps[a].status # "DRAFT" THEN "Only draft applications can be updated"
    ELSE "OK"

\* prisma.application.update({ where: { id }, data }): the row is found by
\* its id alone and the working field overwritten
updateDraftData(app, hardshipNarrative) ==
    [app EXCEPT !.hardshipNarrative = hardshipNarrative]

\* the whole handler, alone
updateDraft(u, a, hardshipNarrative) ==
    /\ response' = Answer("updateDraft", updateDraftGuard(u, a))
    /\ IF updateDraftGuard(u, a) # "OK"
       THEN UNCHANGED apps
       ELSE apps' = [apps EXCEPT ![a] = updateDraftData(@, hardshipNarrative)]
    /\ UNCHANGED <<reviewScores, applicationPeriods, profiles, profileDocs, appDocs, history, links,
                   notifications, emails, snapshotWrites, reqs>>

\* step 1: the reads and the DRAFT check
updateDraftCheck(r, u, a, hardshipNarrative) ==
    /\ Free(r)
    /\ reqs' = [reqs EXCEPT ![r] =
            IF updateDraftGuard(u, a) # "OK" THEN Idle
            ELSE [op |-> "updateDraft", pc |-> "update",
                  applicationId |-> a, hardshipNarrative |-> hardshipNarrative]]
    /\ UNCHANGED <<store, response>>

\* step 2: prisma.application.update
updateDraftWrite(r) ==
    /\ reqs[r].op = "updateDraft" /\ reqs[r].pc = "update"
    /\ apps' = [apps EXCEPT ![reqs[r].applicationId] =
                    updateDraftData(@, reqs[r].hardshipNarrative)]
    /\ reqs' = [reqs EXCEPT ![r] = Idle]
    /\ UNCHANGED <<reviewScores, applicationPeriods, profiles, profileDocs, appDocs, history, links,
                   notifications, emails, snapshotWrites, response>>

\* ------------------------------------------------------------------------
\* StudentService.submitApplication
\* ------------------------------------------------------------------------
hasRequiredDocsAny(docs) == TRUE

\* application.applicationDocuments.some(d => d.documentType === 'FEE_STRUCTURE')
hasRequiredDocs(docs) == \E i \in 1..Len(docs) : docs[i] = "FEE_STRUCTURE"

\* what the reads of submitApplication decide: the error thrown, or "OK"
submitApplicationGuard(u, a) ==
    IF ~profiles[u].exists THEN "Profile not found"
    ELSE IF ~OwnedApp(u, a) THEN "Application not found"
    ELSE IF apps[a].status # "DRAFT" THEN "Only draft applications can be submitted"
    ELSE IF ~hasRequiredDocs(appDocs[a])
    THEN "Please upload the current fee structure document before submitting"
    ELSE "OK"

\* the row after the submit update: status, submittedAt and the snapshot
\* columns, copied from the profile the request read
submitData(app, profile, now) ==
    [app EXCEPT !.status = "PENDING",
                !.submittedAt = now,
                !.snapshotFullName = profile.fullName]

\* the submit transaction: the update and the history row
submitApplicationTransaction(u, a, profile) ==
    /\ apps' = [apps EXCEPT ![a] = submitData(@, profile, Now(history[a]))]
    /\ history' = [history EXCEPT ![a] =
           Append(@, [previousStatus |-> "DRAFT", newStatus |-> "PENDING",
                      changedBy |-> u, autoGenerated |-> TRUE])]
    /\ snapshotWrites' = [snapshotWrites EXCEPT ![a] = @ + 1]

\* the whole handler, alone
submitApplication(u, a) ==
    /\ response' = Answer("submitApplication", submitApplicationGuard(u, a))
    /\ IF submitApplicationGuard(u, a) # "OK"
       THEN UNCHANGED <<apps, history, snapshotWrites>>
       ELSE submitApplicationTransaction(u, a, profiles[u])
    /\ UNCHANGED <<reviewScores, applicationPeriods, profiles, profileDocs, appDocs, links, notifications, emails, reqs>>

\* step 1: the profile read, the application read (with its documents), the checks
submitApplicationCheck(r, u, a) ==
    /\ Free(r)
    /\ reqs' = [reqs EXCEPT ![r] =
            IF submitApplicationGuard(u, a) # "OK" THEN Idle
            ELSE [op |-> "submitApplication", pc |-> "commit", userId |-> u,
                  applicationId |-> a, profile |-> profiles[u]]]
    /\ UNCHANGED <<store, response>>

\* step 2: the transaction, with the profile read in step 1
submitApplicationCommit(r) ==
    /\ reqs[r].op = "submitApplication" /\ reqs[r].pc = "commit"
    /\ submitApplicationTransaction(reqs[r].userId, reqs[r].applicationId, reqs[r].profile)
    /\ reqs' = [reqs EXCEPT ![r] = Idle]
    /\ UNCHANGED <<reviewScores, applicationPeriods, profiles, profileDocs, appDocs, links, notifications, emails, response>>


\* ------------------------------------------------------------------------
\* StudentService.getApplication, getApplicationHistory
\* ------------------------------------------------------------------------
\* what the profile read and the application read decide
getApplicationGuard(u, a) ==
    IF ~profiles[u].exists THEN "Profile not found"
    ELSE IF ~OwnedApp(u, a) THEN "Application not found"
    ELSE "OK"

getApplication(u, a) ==
    /\ response' = Answer("getApplication", getApplicationGuard(u, a))
    /\ UNCHANGED <<store, reqs>>

getApplicationHistory(u, a) ==
    /\ response' = Answer("getApplicationHistory", getApplicationGuard(u, a))
    /\ UNCHANGED <<store, reqs>>
\* ------------------------------------------------------------------------
\* AdminService.updateApplicationStatus
\* ------------------------------------------------------------------------
\* the tables a status update reads and writes
Tables ==
    [apps |-> apps, history |-> history, notifications |-> notifications,
     emails |-> emails]

SetTables(t) ==
    /\ apps' = t.apps
    /\ history' = t.history
    /\ notifications' = t.notifications
    /\ emails' = t.emails

\* an absent amount taken for a given one
TruthyOrAbsent(amount) == amount = Absent \/ amount[1] # 0

\* JavaScript truthiness of an optional number: !disbursedAmount
Truthy(amount) == amount # Absent /\ amount[1] # 0

\* what findUnique and the validation decide: the error thrown, or "OK"
updateApplicationStatusGuard(t, a, newStatus, disbursedAmount) ==
    IF a \notin 1..Len(t.apps) THEN "Application not found"
    ELSE IF ~isValidStatusTransition(t.apps[a].status, newStatus)
    THEN "Invalid status transition"
    ELSE IF newStatus = "DISBURSED" /\ ~Truthy(disbursedAmount)
    THEN "Disbursement amount is required for DISBURSED status"
    ELSE "OK"

updateDataResubmits(app, adminId, newStatus, disbursedAmount, now) ==
    [app EXCEPT !.status = newStatus, !.reviewedAt = now, !.reviewedBy = adminId,
                !.submittedAt = now]

\* the row after tx.application.update({ data: updateData })
updateData(app, adminId, newStatus, disbursedAmount, now) ==
    IF newStatus = "DISBURSED"
    THEN [app EXCEPT !.status = newStatus, !.reviewedAt = now, !.reviewedBy = adminId,
                     !.disbursedAmount = disbursedAmount, !.disbursedAt = now]
    ELSE [app EXCEPT !.status = newStatus, !.reviewedAt = now, !.reviewedBy = adminId]

updateApplicationStatusTransactionNoRow(t, adminId, a, previousStatus, newStatus, disbursedAmount) ==
    [t EXCEPT
        !.apps[a] = updateData(@, adminId, newStatus, disbursedAmount, Now(t.history[a]))]

\* the transaction: the update of the row and the history row, whose
\* previousStatus is the status the request read before the transaction
updateApplicationStatusTransaction(t, adminId, a, previousStatus, newStatus, disbursedAmount) ==
    [t EXCEPT
        !.apps[a] = updateData(@, adminId, newStatus, disbursedAmount, Now(t.history[a])),
        !.history[a] = Append(@, [previousStatus |-> previousStatus, newStatus |-> newStatus,
                                  changedBy |-> adminId, autoGenerated |-> FALSE])]

\* after the commit: the application is read again with its student, and
\* the notification and the email are handed to their sinks
updateApplicationStatusSideEffects(t, a, previousStatus, newStatus) ==
    [t EXCEPT
        !.notifications[a] = @ \cup {[previousStatus |-> previousStatus,
                                       newStatus |-> newStatus]},
        !.emails[a] = @ \cup {[studentName |-> IF t.apps[a].snapshotFullName = NULL
                                               THEN "Student"
                                               ELSE t.apps[a].snapshotFullName,
                               newStatus |-> newStatus]}]

\* the tables after the whole call ran alone
updateApplicationStatusAlone(t, adminId, a, newStatus, disbursedAmount) ==
    IF updateApplicationStatusGuard(t, a, newStatus, disbursedAmount) # "OK"
    THEN t
    ELSE updateApplicationStatusSideEffects(
             updateApplicationStatusTransaction(t, adminId, a, t.apps[a].status,
                                                newStatus, disbursedAmount),
             a, t.apps[a].status, newStatus)

\* the whole handler, alone
updateApplicationStatus(adminId, a, newStatus, disbursedAmount) ==
    /\ response' = Answer("updateApplicationStatus",
                          updateApplicationStatusGuard(Tables, a, newStatus, disbursedAmount))
    /\ SetTables(updateApplicationStatusAlone(Tables, adminId, a, newStatus, disbursedAmount))
    /\ UNCHANGED <<reviewScores, applicationPeriods, profiles, profileDocs, appDocs, links, snapshotWrites, reqs>>

\* a request slot that is inside updateApplicationStatus, called by the
\* controller or by the loop of bulkUpdate
InStatusUpdate(r) == reqs[r].op \in {"updateApplicationStatus", "bulkUpdate"}

\* step 1 of a call made by the controller: findUnique and the validation
updateApplicationStatusCheck(r, a, newStatus, disbursedAmount) ==
    /\ Free(r)
    /\ AppExists(a) => Len(history[a]) < MaxHist
    /\ reqs' = [reqs EXCEPT ![r] =
            IF updateApplicationStatusGuard(Tables, a, newStatus, disbursedAmount) # "OK"
            THEN Idle
            ELSE [op |-> "updateApplicationStatus", pc |-> "commit",
                  applicationId |-> a, newStatus |-> newStatus,
                  disbursedAmount |-> IF newStatus = "DISBURSED" THEN disbursedAmount
                                      ELSE Absent,
                  previousStatus |-> apps[a].status]]
    /\ UNCHANGED <<store, response>>

\* step 2: the transaction
updateApplicationStatusCommit(r) ==
    /\ InStatusUpdate(r) /\ reqs[r].pc = "commit"
    /\ SetTables(updateApplicationStatusTransaction(Tables, AdminOf(r), reqs[r].applicationId,
                     reqs[r].previousStatus, reqs[r].newStatus, reqs[r].disbursedAmount))
    /\ reqs' = [reqs EXCEPT ![r].pc = "notify"]
    /\ UNCHANGED <<reviewScores, applicationPeriods, profiles, profileDocs, appDocs, links, snapshotWrites, response>>

\* ------------------------------------------------------------------------
\* AdminService.bulkUpdate
\* ------------------------------------------------------------------------
\* the batches a caller may send: 1..MaxBatch application ids
Batches == UNION {[1..n -> AppIds] : n \in 1..MaxBatch}
\* the batches of 1..MaxBulkBatch application ids
BulkBatches == UNION {[1..n -> AppIds] : n \in 1..MaxBulkBatch}

NoResults == [updated |-> 0, failed |-> 0, errors |-> <<>>]

\* the loop body after the call for id a returned (error = "OK") or threw
Count(results, a, error) ==
    IF error = "OK"
    THEN [results EXCEPT !.updated = @ + 1]
    ELSE [results EXCEPT !.failed = @ + 1,
                         !.errors = Append(@, [applicationId |-> a, error |-> error])]

RECURSIVE bulkUpdateLoopAborting(_, _, _, _, _)
bulkUpdateLoopAborting(t, adminId, ids, newStatus, results) ==
    IF ids = <<>>
    THEN [tables |-> t, results |-> results]
    ELSE IF updateApplicationStatusGuard(t, Head(ids), newStatus, Absent) # "OK"
    THEN [tables |-> t,
          results |-> Count(results, Head(ids),
                            updateApplicationStatusGuard(t, Head(ids), newStatus, Absent))]
    ELSE bulkUpdateLoopAborting(
             updateApplicationStatusAlone(t, adminId, Head(ids), newStatus, Absent),
             adminId, Tail(ids), newStatus, Count(results, Head(ids), "OK"))

RECURSIVE bulkUpdateLoopAllOrNothing(_, _, _, _, _)
bulkUpdateLoopAllOrNothing(t, adminId, ids, newStatus, results) ==
    IF ids = <<>>
    THEN [tables |-> t, results |-> results]
    ELSE LET rest == bulkUpdateLoopAllOrNothing(
                         updateApplicationStatusAlone(t, adminId, Head(ids), newStatus, Absent),
                         adminId, Tail(ids), newStatus,
                         Count(results, Head(ids),
                               updateApplicationStatusGuard(t, Head(ids), newStatus, Absent)))
         IN IF rest.results.failed > results.failed
            THEN [tables |-> t, results |-> rest.results]
            ELSE rest

\* the loop run alone over ids: the tables and the results after it; the
\* call passes the note and no disbursedAmount
RECURSIVE bulkUpdateLoop(_, _, _, _, _)
bulkUpdateLoop(t, adminId, ids, newStatus, results) ==
    IF ids = <<>>
    THEN [tables |-> t, results |-> results]
    ELSE bulkUpdateLoop(
             updateApplicationStatusAlone(t, adminId, Head(ids), newStatus, Absent),
             adminId, Tail(ids), newStatus,
             Count(results, Head(ids),
                   updateApplicationStatusGuard(t, Head(ids), newStatus, Absent)))

\* the whole handler, alone; the answer is kept with the batch it answers
bulkUpdate(adminId, applicationIds, newStatus) ==
    LET run == bulkUpdateLoop(Tables, adminId, applicationIds, newStatus, NoResults) IN
    /\ SetTables(run.tables)
    /\ response' = [op |-> "bulkUpdate", ok |-> TRUE, message |-> "OK", code |-> "OK",
                    applicationIds |-> applicationIds,
                    success |-> run.results.failed = 0,
                    updated |-> run.results.updated,
                    failed |-> run.results.failed,
                    errors |-> run.results.errors]
    /\ UNCHANGED <<reviewScores, applicationPeriods, profiles, profileDocs, appDocs, links, snapshotWrites, reqs>>

\* the loop goes on with the next id, or the handler answers; a slot does
\* not keep the loop's counters, which no write to the store depends on
bulkUpdateAdvance(q) ==
    IF Tail(q.rest) # <<>>
    THEN [q EXCEPT !.pc = "read", !.rest = Tail(q.rest),
                   !.applicationId = 0, !.previousStatus = NULL]
    ELSE Idle

\* the call for the next id of the batch q, up to its read: findUnique and
\* the validation
bulkUpdateRead(q) ==
    LET a == Head(q.rest) IN
    IF updateApplicationStatusGuard(Tables, a, q.newStatus, Absent) # "OK"
    THEN bulkUpdateAdvance(q)
    ELSE [q EXCEPT !.pc = "commit", !.applicationId = a,
                   !.previousStatus = apps[a].status]

\* the room left in the history of the application a call is about to write
bulkUpdateRoom(q) ==
    LET a == Head(q.rest) IN
    (AppExists(a) /\ updateApplicationStatusGuard(Tables, a, q.newStatus, Absent) = "OK")
        => Len(history[a]) < MaxHist

\* the handler starts its loop: the call for the first id, up to its read
bulkUpdateBegin(r, applicationIds, newStatus) ==
    LET q == [op |-> "bulkUpdate", pc |-> "read", newStatus |-> newStatus,
              rest |-> applicationIds,
              applicationId |-> 0, previousStatus |-> NULL, disbursedAmount |-> Absent]
    IN /\ Free(r)
       /\ bulkUpdateRoom(q)
       /\ reqs' = [reqs EXCEPT ![r] = bulkUpdateRead(q)]
       /\ UNCHANGED <<store, response>>

\* the call for a later id of the batch, up to its read
bulkUpdateCheck(r) ==
    /\ reqs[r].op = "bulkUpdate" /\ reqs[r].pc = "read"
    /\ bulkUpdateRoom(reqs[r])
    /\ reqs' = [reqs EXCEPT ![r] = bulkUpdateRead(reqs[r])]
    /\ UNCHANGED <<store, response>>

\* step 3 of a status update: the read after the commit and the side effects
updateApplicationStatusNotify(r) ==
    /\ InStatusUpdate(r) /\ reqs[r].pc = "notify"
    /\ SetTables(updateApplicationStatusSideEffects(Tables, reqs[r].applicationId,
                     reqs[r].previousStatus, reqs[r].newStatus))
    /\ reqs' = [reqs EXCEPT ![r] =
            IF reqs[r].op = "bulkUpdate" THEN bulkUpdateAdvance(reqs[r]) ELSE Idle]
    /\ UNCHANGED <<reviewScores, applicationPeriods, profiles, profileDocs, appDocs, links, snapshotWrites, response>>

\* ------------------------------------------------------------------------
\* AdminService.updateApplicationStatus with sinks that may fail
\* ------------------------------------------------------------------------
\* what may fail after the commit: nothing, the read of the application
\* with its student, notificationService.createNotification, or the email
SinkFailures == {{}, {"lookup"}, {"notification"}, {"email"}}

updateApplicationStatusSideEffectsUndoing(t, a, previousStatus, newStatus, failed) ==
    IF failed # {}
    THEN [t EXCEPT !.apps[a].status = previousStatus,
                   !.history[a] = SubSeq(@, 1, Len(@) - 1)]
    ELSE updateApplicationStatusSideEffects(t, a, previousStatus, newStatus)

\* the try block after the commit: a failed read is caught and skips both
\* sinks; each sink's rejection is caught on its own
updateApplicationStatusSideEffectsFailing(t, a, previousStatus, newStatus, failed) ==
    LET sent == updateApplicationStatusSideEffects(t, a, previousStatus, newStatus) IN
    IF "lookup" \in failed
    THEN t
    ELSE [t EXCEPT
            !.notifications = IF "notification" \in failed THEN @ ELSE sent.notifications,
            !.emails = IF "email" \in failed THEN @ ELSE sent.emails]

\* step 3 of a call made by the controller, with the failures given: the
\* try block, then return updated, which the controller answers with
updateApplicationStatusNotifyFailing(r, failed) ==
    /\ reqs[r].op = "updateApplicationStatus" /\ reqs[r].pc = "notify"
    /\ SetTables(updateApplicationStatusSideEffectsFailing(Tables, reqs[r].applicationId,
                     reqs[r].previousStatus, reqs[r].newStatus, failed))
    /\ reqs' = [reqs EXCEPT ![r] = Idle]
    /\ response' = Answer("updateApplicationStatus", "OK")
    /\ UNCHANGED <<reviewScores, applicationPeriods, profiles, profileDocs, appDocs, links, snapshotWrites>>

\* ------------------------------------------------------------------------
\* AdminService.scoreApplication
\* ------------------------------------------------------------------------
Reviewers == {"admin1", "admin2"}

\* a double that is a quotient of integers, kept exact
Quotient(n, d) == [num |-> n, den |-> d]

\* request bodies: the four sub-scores (1..5 each), without and with an
\* overallScore of the client's; the validation middleware checks the body
\* and hands it on as it was sent
ScoreBodies ==
    {[financialNeed |-> 1, academicMerit |-> 1, communityImpact |-> 1, vulnerability |-> 1],
     [financialNeed |-> 1, academicMerit |-> 2, communityImpact |-> 3, vulnerability |-> 4,
      overallScore |-> Quotient(20, 4)],
     [financialNeed |-> 5, academicMerit |-> 5, communityImpact |-> 5, vulnerability |-> 5,
      overallScore |-> Quotient(4, 4)]}

\* (financialNeed + academicMerit + communityImpact + vulnerability) / 4
overallScoreOf(scores) ==
    Quotient(scores.financialNeed + scores.academicMerit
             + scores.communityImpact + scores.vulnerability, 4)

scoreColumnsClientFirst(scores, overallScore) ==
    scores @@ [overallScore |-> overallScore]

\* { ...scores, overallScore }: the computed overallScore comes after the
\* spread and replaces an overallScore of the body
scoreColumns(scores, overallScore) ==
    [overallScore |-> overallScore] @@ scores

\* the index of the row of the pair in rows, 0 when there is none
\* (where: { applicationId_reviewerId })
scoreRowOf(rows, applicationId, reviewerId) ==
    IF \E i \in 1..Len(rows) : /\ rows[i].applicationId = applicationId
                               /\ rows[i].reviewerId = reviewerId
    THEN CHOOSE i \in 1..Len(rows) : /\ rows[i].applicationId = applicationId
                                     /\ rows[i].reviewerId = reviewerId
    ELSE 0

\* the create branch of the upsert: { applicationId, reviewerId, ...scores,
\* overallScore }; the row is stamped with its first write
scoreCreate(rows, applicationId, reviewerId, scores) ==
    Append(rows, scoreColumns(scores, overallScoreOf(scores))
                 @@ [applicationId |-> applicationId, reviewerId |-> reviewerId,
                     updatedAt |-> 1])

\* the update branch of the upsert: { ...scores, overallScore } replaces the
\* columns of row i, and updatedAt is stamped again
scoreUpdate(rows, i, scores) ==
    [rows EXCEPT ![i] = scoreColumns(scores, overallScoreOf(scores))
                        @@ [updatedAt |-> rows[i].updatedAt + 1]
                        @@ rows[i]]

\* step 1: prisma.application.findUnique; 'Application not found' is thrown
\* when there is no such application
scoreApplicationFind(r, applicationId, reviewerId, scores) ==
    /\ Free(r)
    /\ reqs' = [reqs EXCEPT ![r] =
           IF ~AppExists(applicationId)
           THEN Idle
           ELSE [op |-> "scoreApplication", pc |-> "upsert", applicationId |-> applicationId,
                 reviewerId |-> reviewerId, scores |-> scores]]
    /\ UNCHANGED <<store, response>>

\* step 2: the upsert looks the row of the pair up
scoreApplicationUpsertRead(r) ==
    /\ reqs[r].op = "scoreApplication"
    /\ reqs[r].pc = "upsert"
    /\ reqs' = [reqs EXCEPT ![r] =
           [op |-> "scoreApplication", pc |-> "write", applicationId |-> reqs[r].applicationId,
            reviewerId |-> reqs[r].reviewerId, scores |-> reqs[r].scores,
            found |-> scoreRowOf(reviewScores, reqs[r].applicationId, reqs[r].reviewerId) # 0]]
    /\ UNCHANGED <<store, response>>

\* step 3: the upsert writes. The row it found is updated; when it found
\* none it inserts, and the unique index on (applicationId, reviewerId)
\* refuses the insert if a row of the pair was committed meanwhile
scoreApplicationUpsertWrite(r) ==
    LET q == reqs[r]
        i == scoreRowOf(reviewScores, q.applicationId, q.reviewerId)
    IN /\ q.op = "scoreApplication"
       /\ q.pc = "write"
       /\ i # 0 /\ q.found => reviewScores[i].updatedAt < MaxScoreWrites
       /\ reviewScores' = IF q.found
                          THEN scoreUpdate(reviewScores, i, q.scores)
                          ELSE IF i # 0
                          THEN reviewScores
                          ELSE scoreCreate(reviewScores, q.applicationId, q.reviewerId, q.scores)
       /\ reqs' = [reqs EXCEPT ![r] = Idle]
       /\ UNCHANGED <<profiles, profileDocs, apps, history, appDocs, links, notifications,
                      emails, snapshotWrites, applicationPeriods, response>>

\* the bodies a client may send: those above, and bodies with a sub-score
\* below 1 or above 5
ScoreRequests ==
    ScoreBodies \cup
    {[financialNeed |-> 0, academicMerit |-> 1, communityImpact |-> 1, vulnerability |-> 1],
     [financialNeed |-> 5, academicMerit |-> 5, communityImpact |-> 5, vulnerability |-> 6]}

scoreApplicationSchemaMaxOnly(body) ==
    /\ body.financialNeed <= 5 /\ body.academicMerit <= 5
    /\ body.communityImpact <= 5 /\ body.vulnerability <= 5

\* validate(scoreApplicationSchema): z.number().int().min(1).max(5) on each
\* of the four sub-scores
scoreApplicationSchema(body) ==
    /\ body.financialNeed \in 1..5 /\ body.academicMerit \in 1..5
    /\ body.communityImpact \in 1..5 /\ body.vulnerability \in 1..5

\* what the validation middleware and the read of the application decide
scoreApplicationGuard(applicationId, body) ==
    IF ~scoreApplicationSchema(body) THEN "Validation failed"
    ELSE IF ~AppExists(applicationId) THEN "Application not found"
    ELSE "OK"

\* POST /applications/:id/scores, alone: the validation middleware, then
\* the whole handler
scoreApplication(applicationId, reviewerId, body) ==
    LET i == scoreRowOf(reviewScores, applicationId, reviewerId)
    IN /\ i # 0 => reviewScores[i].updatedAt < MaxScoreWrites
       /\ response' = Answer("scoreApplication", scoreApplicationGuard(applicationId, body))
       /\ reviewScores' = IF scoreApplicationGuard(applicationId, body) # "OK"
                          THEN reviewScores
                          ELSE IF i # 0
                          THEN scoreUpdate(reviewScores, i, body)
                          ELSE scoreCreate(reviewScores, applicationId, reviewerId, body)
       /\ UNCHANGED <<profiles, profileDocs, apps, history, appDocs, links, notifications,
                      emails, snapshotWrites, applicationPeriods, reqs>>

\* scores.reduce((sum, s) => sum + s.overallScore, 0): the numerators of
\* the first n rows added up (every overallScore is a quotient by 4)
RECURSIVE sumOverallScore(_, _)
sumOverallScore(scores, n) ==
    IF n = 0 THEN 0 ELSE sumOverallScore(scores, n - 1) + scores[n].overallScore.num

averageScoreZeroWhenEmpty(scores) ==
    IF Len(scores) > 0
    THEN Quotient(sumOverallScore(scores, Len(scores)), 4 * Len(scores))
    ELSE Quotient(0, 1)

\* scores.length > 0 ? sum / scores.length : null (null is the record
\* [null |-> TRUE], which is no quotient)
averageScoreOf(scores) ==
    IF Len(scores) > 0
    THEN Quotient(sumOverallScore(scores, Len(scores)), 4 * Len(scores))
    ELSE [null |-> TRUE]

\* GET /applications/:id/scores: the rows of the application, their
\* average and their number, kept with the id asked for
getApplicationScores(applicationId) ==
    LET scores == SelectSeq(reviewScores, LAMBDA s : s.applicationId = applicationId)
    IN /\ response' = [op |-> "getApplicationScores", ok |-> TRUE,
                       applicationId |-> applicationId,
                       averageScore |-> averageScoreOf(scores),
                       totalReviewers |-> Len(scores)]
       /\ UNCHANGED <<store, reqs>>

\* ------------------------------------------------------------------------
\* AdminService: application periods
\* ------------------------------------------------------------------------
\* applicationPeriods holds the rows in creation order, the index is the
\* id; a deleted row stays as a tombstone, its id is not used again
PeriodIds == 1..MaxPeriods

\* where [startDate, endDate] lies with respect to the current time
Windows == {"past", "current", "future"}

PeriodExists(rows, id) == id \in 1..Len(rows) /\ ~rows[id].deleted

\* findMany({ where: { isActive: true } })
ActivePeriods(rows) == {p \in 1..Len(rows) : ~rows[p].deleted /\ rows[p].isActive}

\* createApplicationPeriod, alone: the row is inserted with the column
\* default isActive = false
createApplicationPeriod(window) ==
    /\ Len(applicationPeriods) < MaxPeriods
    /\ applicationPeriods' = Append(applicationPeriods,
                                    [deleted |-> FALSE, isActive |-> FALSE, window |-> window])
    /\ response' = Answer("createApplicationPeriod", "OK")
    /\ UNCHANGED <<profiles, profileDocs, apps, history, appDocs, links, notifications,
                   emails, snapshotWrites, reviewScores, reqs>>

\* the rows a transaction in flight has written and holds locked
Locked(r) ==
    IF reqs[r].op = "activateApplicationPeriod" /\ reqs[r].pc \in {"activate", "commit"}
    THEN reqs[r].locked
    ELSE {}

LockedByOthers(r) == UNION {Locked(o) : o \in Req \ {r}}

\* what the reads of deleteApplicationPeriod decide
deleteApplicationPeriodGuard(id) ==
    IF ~PeriodExists(applicationPeriods, id) THEN "Application period not found"
    ELSE IF applicationPeriods[id].isActive THEN "Cannot delete an active application period"
    ELSE "OK"

\* deleteApplicationPeriod, alone; the delete waits for a transaction that
\* holds the row
deleteApplicationPeriod(id) ==
    /\ id \notin UNION {Locked(o) : o \in Req}
    /\ response' = Answer("deleteApplicationPeriod", deleteApplicationPeriodGuard(id))
    /\ applicationPeriods' = IF deleteApplicationPeriodGuard(id) = "OK"
                             THEN [applicationPeriods EXCEPT ![id].deleted = TRUE]
                             ELSE applicationPeriods
    /\ UNCHANGED <<profiles, profileDocs, apps, history, appDocs, links, notifications,
                   emails, snapshotWrites, reviewScores, reqs>>

\* tx.applicationPeriod.updateMany({ where: { isActive: true }, data: { isActive: false } })
\* over the rows it matched
periodsDeactivated(rows, matched) ==
    [p \in 1..Len(rows) |-> IF p \in matched THEN [rows[p] EXCEPT !.isActive = FALSE]
                            ELSE rows[p]]

\* tx.applicationPeriod.update({ where: { id }, data: { isActive: true } })
periodsActivated(rows, id) == [rows EXCEPT ![id].isActive = TRUE]

periodsRolledBackHalfway(rows, deactivated) == periodsDeactivated(rows, deactivated)

\* the committed rows after the transaction was rolled back: none of its
\* writes is kept
periodsRolledBack(rows, deactivated) == rows

\* step 1: findUnique; 'Application period not found' is thrown before the
\* transaction is opened
activateApplicationPeriodFind(r, id) ==
    /\ Free(r)
    /\ IF ~PeriodExists(applicationPeriods, id)
       THEN /\ response' = Answer("activateApplicationPeriod", "Application period not found")
            /\ UNCHANGED reqs
       ELSE /\ reqs' = [reqs EXCEPT ![r] = [op |-> "activateApplicationPeriod",
                                            pc |-> "deactivate", id |-> id,
                                            matched |-> {}, locked |-> {}]]
            /\ UNCHANGED response
    /\ UNCHANGED store

\* step 2, in the transaction: updateMany matches the rows that are active
\* in the committed table (READ COMMITTED, the default); it writes them when
\* no other transaction holds one of them, and waits otherwise
activateApplicationPeriodDeactivate(r) ==
    LET matched == ActivePeriods(applicationPeriods) IN
    /\ reqs[r].op = "activateApplicationPeriod"
    /\ reqs[r].pc = "deactivate"
    /\ reqs' = [reqs EXCEPT ![r] =
           IF matched \cap LockedByOthers(r) = {}
           THEN [@ EXCEPT !.pc = "activate", !.matched = matched, !.locked = matched]
           ELSE [@ EXCEPT !.pc = "blocked", !.matched = matched]]
    /\ UNCHANGED <<store, response>>

\* step 2, after the wait: the rows it matched are free again; updateMany
\* checks its condition again on those rows only, and writes the ones that
\* are still active
activateApplicationPeriodResume(r) ==
    LET still == reqs[r].matched \cap ActivePeriods(applicationPeriods) IN
    /\ reqs[r].op = "activateApplicationPeriod"
    /\ reqs[r].pc = "blocked"
    /\ reqs[r].matched \cap LockedByOthers(r) = {}
    /\ reqs' = [reqs EXCEPT ![r] = [@ EXCEPT !.pc = "activate", !.matched = still,
                                              !.locked = still]]
    /\ UNCHANGED <<store, response>>

\* step 3, in the transaction: update of the target row, which waits while
\* another transaction holds the row; when the row is gone the update throws
\* and the transaction is rolled back
activateApplicationPeriodActivate(r) ==
    /\ reqs[r].op = "activateApplicationPeriod"
    /\ reqs[r].pc = "activate"
    /\ reqs[r].id \notin LockedByOthers(r)
    /\ IF ~PeriodExists(applicationPeriods, reqs[r].id)
       THEN /\ applicationPeriods' = periodsRolledBack(applicationPeriods, reqs[r].matched)
            /\ reqs' = [reqs EXCEPT ![r] = Idle]
            /\ response' = Answer("activateApplicationPeriod", "Record to update not found")
       ELSE /\ reqs' = [reqs EXCEPT ![r] = [@ EXCEPT !.pc = "commit",
                                                     !.locked = @ \cup {reqs[r].id}]]
            /\ UNCHANGED <<applicationPeriods, response>>
    /\ UNCHANGED <<profiles, profileDocs, apps, history, appDocs, links, notifications,
                   emails, snapshotWrites, reviewScores>>

\* the commit: the writes of the transaction reach the table together
activateApplicationPeriodCommit(r) ==
    /\ reqs[r].op = "activateApplicationPeriod"
    /\ reqs[r].pc = "commit"
    /\ applicationPeriods' = periodsActivated(
                                 periodsDeactivated(applicationPeriods, reqs[r].matched),
                                 reqs[r].id)
    /\ reqs' = [reqs EXCEPT ![r] = Idle]
    /\ response' = Answer("activateApplicationPeriod", "OK")
    /\ UNCHANGED <<profiles, profileDocs, apps, history, appDocs, links, notifications,
                   emails, snapshotWrites, reviewScores>>

\* the process or the connection is lost inside the transaction: the
\* database rolls the transaction back, and no answer is sent
activateApplicationPeriodCrash(r) ==
    /\ reqs[r].op = "activateApplicationPeriod"
    /\ reqs[r].pc \in {"blocked", "activate", "commit"}
    /\ applicationPeriods' = periodsRolledBack(applicationPeriods, reqs[r].matched)
    /\ reqs' = [reqs EXCEPT ![r] = Idle]
    /\ UNCHANGED <<profiles, profileDocs, apps, history, appDocs, links, notifications,
                   emails, snapshotWrites, reviewScores, response>>

\* ------------------------------------------------------------------------
\* StudentService.createProfile and the eligibility request
\* ------------------------------------------------------------------------
\* a user who has registered and has not created a profile
NoProfile ==
    [exists |-> FALSE, fullName |-> NULL, nationalIdNumber |-> NULL,
     passportNumber |-> NULL, isComplete |-> FALSE]

\* the identification a profile is created with: a national id or none
NationalIds == {NULL, "id1"}

\* the passport number a profile is created with: one or none
PassportNumbers == {NULL, "p1"}

\* what the reads of createProfile decide
createProfileGuard(u, nationalIdNumber, passportNumber) ==
    IF profiles[u].exists THEN "Profile already exists"
    ELSE IF /\ nationalIdNumber # NULL
            /\ \E o \in DOMAIN profiles : /\ profiles[o].exists
                                          /\ profiles[o].nationalIdNumber = nationalIdNumber
    THEN "National ID already registered"
    ELSE IF /\ passportNumber # NULL
            /\ \E o \in DOMAIN profiles : /\ profiles[o].exists
                                          /\ profiles[o].passportNumber = passportNumber
    THEN "Passport number already registered"
    ELSE "OK"

\* createProfile, alone: the row is created with isComplete computed from
\* the data sent
createProfile(u, fullName, nationalIdNumber, passportNumber) ==
    /\ response' = Answer("createProfile",
                          createProfileGuard(u, nationalIdNumber, passportNumber))
    /\ profiles' = IF createProfileGuard(u, nationalIdNumber, passportNumber) # "OK"
                   THEN profiles
                   ELSE [profiles EXCEPT ![u] =
                            [exists |-> TRUE, fullName |-> fullName,
                             nationalIdNumber |-> nationalIdNumber,
                             passportNumber |-> passportNumber,
                             isComplete |-> checkProfileComplete(
                                 [fullName |-> fullName, nationalIdNumber |-> nationalIdNumber,
                                  passportNumber |-> passportNumber])]]
    /\ UNCHANGED <<profileDocs, apps, history, appDocs, links, notifications, emails,
                   snapshotWrites, reviewScores, applicationPeriods, reqs>>

\* prisma.application.findFirst over the active applications of the
\* profile, without an order: any of them, or 0 for null
findFirstActiveApplication(u) ==
    IF activeApplications(u) = {} THEN {0} ELSE activeApplications(u)

checkEligibilityActiveFirst(u, activeApplication) ==
    IF ~profiles[u].exists
    THEN [canApply |-> FALSE, reason |-> "Profile not found. Please create a profile first.",
          missingFields |-> {"Profile not created"}, hasActiveApplication |-> FALSE]
    ELSE IF activeApplication # 0
    THEN [canApply |-> FALSE, reason |-> "You already have an active application.",
          missingFields |-> {}, hasActiveApplication |-> TRUE,
          activeApplicationId |-> activeApplication,
          activeApplicationStatus |-> apps[activeApplication].status]
    ELSE IF ~getProfileCompleteness(u).isComplete
    THEN [canApply |-> FALSE, reason |-> "Profile is incomplete.",
          missingFields |-> getProfileCompleteness(u).missingFields
                            \cup getProfileCompleteness(u).missingDocuments,
          hasActiveApplication |-> FALSE]
    ELSE [canApply |-> TRUE, reason |-> "You are eligible to submit a new application.",
          missingFields |-> {}, hasActiveApplication |-> FALSE]

\* the EligibilityResponse of checkEligibility, given what findFirst returns
\* for the active application
checkEligibilityResponse(u, activeApplication) ==
    IF ~profiles[u].exists
    THEN [canApply |-> FALSE, reason |-> "Profile not found. Please create a profile first.",
          missingFields |-> {"Profile not created"}, hasActiveApplication |-> FALSE]
    ELSE IF ~getProfileCompleteness(u).isComplete
    THEN [canApply |-> FALSE, reason |-> "Profile is incomplete.",
          missingFields |-> getProfileCompleteness(u).missingFields
                            \cup getProfileCompleteness(u).missingDocuments,
          hasActiveApplication |-> FALSE]
    ELSE IF activeApplication # 0
    THEN [canApply |-> FALSE, reason |-> "You already have an active application.",
          missingFields |-> {}, hasActiveApplication |-> TRUE,
          activeApplicationId |-> activeApplication,
          activeApplicationStatus |-> apps[activeApplication].status]
    ELSE [canApply |-> TRUE, reason |-> "You are eligible to submit a new application.",
          missingFields |-> {}, hasActiveApplication |-> FALSE]

\* GET /applications/eligibility, alone: the answer carries the response of
\* checkEligibility for the user of the request; nothing is written
checkEligibilityRequest(u) ==
    /\ \E activeApplication \in findFirstActiveApplication(u) :
           response' = [op |-> "checkEligibility", ok |-> TRUE, message |-> "OK",
                        code |-> "OK", userId |-> u,
                        data |-> checkEligibilityResponse(u, activeApplication)]
    /\ UNCHANGED <<store, reqs>>

\* ------------------------------------------------------------------------
\* StudentService.updateProfile
\* ------------------------------------------------------------------------
\* what the profile read and the check for an application under review decide
updateProfileGuard(u) ==
    IF ~profiles[u].exists THEN "Profile not found"
    ELSE IF \E a \in 1..Len(apps) : /\ apps[a].studentProfileId = u
                                    /\ apps[a].status \in {"PENDING", "UNDER_REVIEW"}
    THEN "Cannot update profile while application is under review"
    ELSE "OK"

updateProfileDataResync(rows, u, profile, fullName) ==
    [profiles |-> [rows.profiles EXCEPT ![u].fullName = fullName,
                       ![u].isComplete =
                            checkProfileComplete([profile EXCEPT !.fullName = fullName])],
     apps |-> [a \in 1..Len(rows.apps) |->
                  IF rows.apps[a].studentProfileId = u /\ rows.apps[a].submittedAt # NoTime
                  THEN [rows.apps[a] EXCEPT !.snapshotFullName = fullName]
                  ELSE rows.apps[a]]]

\* prisma.studentProfile.update: the fields sent, and isComplete recomputed
\* from the row the request read merged with them; no other table is written
updateProfileData(rows, u, profile, fullName) ==
    [profiles |-> [rows.profiles EXCEPT ![u].fullName = fullName,
                       ![u].isComplete =
                            checkProfileComplete([profile EXCEPT !.fullName = fullName])],
     apps |-> rows.apps]

\* the whole handler, alone
updateProfile(u, fullName) ==
    /\ response' = Answer("updateProfile", updateProfileGuard(u))
    /\ IF updateProfileGuard(u) # "OK"
       THEN UNCHANGED <<profiles, apps>>
       ELSE LET new == updateProfileData([profiles |-> profiles, apps |-> apps],
                                         u, profiles[u], fullName)
            IN profiles' = new.profiles /\ apps' = new.apps
    /\ UNCHANGED <<reviewScores, applicationPeriods, profileDocs, history, appDocs, links, notifications,
                   emails, snapshotWrites, reqs>>

\* ------------------------------------------------------------------------
\* StudentService: profile documents
\* ------------------------------------------------------------------------
\* the row of the first document of a type; id tells the rows of one
\* (profile, documentType) apart
ProfileDocument(u, documentType) ==
    [id |-> 1, studentProfileId |-> u, documentType |-> documentType]

\* prisma.profileDocument.findFirst({ where: { studentProfileId, documentType } }):
\* the rows it may return
existingDocs(u, documentType) ==
    {d \in profileDocs : d.studentProfileId = u /\ d.documentType = documentType}

\* the row prisma.profileDocument.create inserts: a row of its own beside
\* those of the (profile, documentType)
NewProfileDocument(u, documentType) ==
    [ProfileDocument(u, documentType) EXCEPT
        !.id = CHOOSE n \in 1..(Cardinality(existingDocs(u, documentType)) + 1) :
                  /\ \A d \in existingDocs(u, documentType) : d.id # n
                  /\ \A m \in 1..(n - 1) : \E d \in existingDocs(u, documentType) : d.id = m]

\* uploadProfileDocument, alone: a document of the type exists -> it is
\* updated in place and isComplete is left as it is; otherwise the row is
\* created and updateProfileCompleteness stores the evaluator's isComplete
uploadProfileDocument(u, documentType) ==
    /\ response' = Answer("uploadProfileDocument",
                          IF profiles[u].exists THEN "OK" ELSE "Profile not found")
    /\ IF ~profiles[u].exists \/ existingDocs(u, documentType) # {}
       THEN UNCHANGED <<profiles, profileDocs>>
       ELSE /\ profileDocs' = profileDocs \cup {NewProfileDocument(u, documentType)}
            /\ profiles' = [profiles EXCEPT ![u].isComplete =
                   profileCompleteness(profiles[u], profileDocs', u).isComplete]
    /\ UNCHANGED <<reviewScores, applicationPeriods, apps, history, appDocs, links, notifications, emails,
                   snapshotWrites, reqs>>

\* step 1: the reads of the profile and of a document of the type
uploadProfileDocumentCheck(r, u, documentType) ==
    /\ Free(r)
    /\ IF ~profiles[u].exists
       THEN reqs' = [reqs EXCEPT ![r] = Idle]
       ELSE IF existingDocs(u, documentType) = {}
       THEN reqs' = [reqs EXCEPT ![r] =
                [op |-> "uploadProfileDocument", pc |-> "create", userId |-> u,
                 documentType |-> documentType]]
       ELSE \E existingDoc \in existingDocs(u, documentType) :
                reqs' = [reqs EXCEPT ![r] =
                    [op |-> "uploadProfileDocument", pc |-> "update", userId |-> u,
                     profileDocument |-> existingDoc]]
    /\ UNCHANGED <<store, response>>

\* step 2, a document was found: prisma.profileDocument.update({ where: { id } }),
\* the row keeps its id and takes the new file (a row deleted meanwhile
\* makes the call throw)
uploadProfileDocumentUpdate(r) ==
    /\ reqs[r].op = "uploadProfileDocument" /\ reqs[r].pc = "update"
    /\ reqs' = [reqs EXCEPT ![r] = Idle]
    /\ UNCHANGED <<store, response>>

\* step 2, none was found: prisma.profileDocument.create
uploadProfileDocumentCreate(r) ==
    /\ reqs[r].op = "uploadProfileDocument" /\ reqs[r].pc = "create"
    /\ profileDocs' = profileDocs \cup {NewProfileDocument(reqs[r].userId, reqs[r].documentType)}
    /\ reqs' = [reqs EXCEPT ![r].pc = "completeness"]
    /\ UNCHANGED <<reviewScores, applicationPeriods, profiles, apps, history, appDocs, links,
                   notifications, emails, snapshotWrites, response>>

\* step 3: updateProfileCompleteness
uploadProfileDocumentCompleteness(r) ==
    /\ reqs[r].op = "uploadProfileDocument" /\ reqs[r].pc = "completeness"
    /\ profiles' = [profiles EXCEPT ![reqs[r].userId].isComplete =
                        getProfileCompleteness(reqs[r].userId).isComplete]
    /\ reqs' = [reqs EXCEPT ![r] = Idle]
    /\ UNCHANGED <<reviewScores, applicationPeriods, profileDocs, apps, history, appDocs, links,
                   notifications, emails, snapshotWrites, response>>

\* what the reads of deleteProfileDocument decide
deleteProfileDocumentGuard(u, documentType) ==
    IF ~profiles[u].exists THEN "Profile not found"
    ELSE IF ProfileDocument(u, documentType) \notin profileDocs THEN "Document not found"
    ELSE IF \E l \in links : /\ l.profileDocument = ProfileDocument(u, documentType)
                             /\ apps[l.applicationId].status \in {"PENDING", "UNDER_REVIEW"}
    THEN "Cannot delete document linked to active applications"
    ELSE "OK"

\* the links left once a profile document is deleted: the links of a
\* deleted document are deleted with it
linksAfterDelete(rows, document) == {l \in rows : l.profileDocument # document}

\* deleteProfileDocument, alone: the row is deleted (its links go with it)
\* and updateProfileCompleteness stores the evaluator's isComplete
deleteProfileDocument(u, documentType) ==
    /\ response' = Answer("deleteProfileDocument", deleteProfileDocumentGuard(u, documentType))
    /\ IF deleteProfileDocumentGuard(u, documentType) # "OK"
       THEN UNCHANGED <<profiles, profileDocs, links>>
       ELSE /\ profileDocs' = profileDocs \ {ProfileDocument(u, documentType)}
            /\ links' = linksAfterDelete(links, ProfileDocument(u, documentType))
            /\ profiles' = [profiles EXCEPT ![u].isComplete =
                   profileCompleteness(profiles[u], profileDocs', u).isComplete]
    /\ UNCHANGED <<reviewScores, applicationPeriods, apps, history, appDocs, notifications, emails,
                   snapshotWrites, reqs>>

\* step 1: the reads of the profile, the document and its links to
\* applications under review
deleteProfileDocumentCheck(r, u, documentType) ==
    /\ Free(r)
    /\ reqs' = [reqs EXCEPT ![r] =
            IF deleteProfileDocumentGuard(u, documentType) # "OK" THEN Idle
            ELSE [op |-> "deleteProfileDocument", pc |-> "delete", userId |-> u,
                  profileDocument |-> ProfileDocument(u, documentType)]]
    /\ UNCHANGED <<store, response>>

\* step 2: prisma.profileDocument.delete({ where: { id } }); a row already
\* deleted makes the call throw
deleteProfileDocumentDelete(r) ==
    /\ reqs[r].op = "deleteProfileDocument" /\ reqs[r].pc = "delete"
    /\ IF reqs[r].profileDocument \notin profileDocs
       THEN /\ reqs' = [reqs EXCEPT ![r] = Idle]
            /\ UNCHANGED <<profileDocs, links>>
       ELSE /\ profileDocs' = profileDocs \ {reqs[r].profileDocument}
            /\ links' = linksAfterDelete(links, reqs[r].profileDocument)
            /\ reqs' = [reqs EXCEPT ![r].pc = "completeness"]
    /\ UNCHANGED <<reviewScores, applicationPeriods, profiles, apps, history, appDocs, notifications,
                   emails, snapshotWrites, response>>

\* step 3: updateProfileCompleteness
deleteProfileDocumentCompleteness(r) ==
    /\ reqs[r].op = "deleteProfileDocument" /\ reqs[r].pc = "completeness"
    /\ profiles' = [profiles EXCEPT ![reqs[r].userId].isComplete =
                        getProfileCompleteness(reqs[r].userId).isComplete]
    /\ reqs' = [reqs EXCEPT ![r] = Idle]
    /\ UNCHANGED <<reviewScores, applicationPeriods, profileDocs, apps, history, appDocs, links,
                   notifications, emails, snapshotWrites, response>>

\* ------------------------------------------------------------------------
\* StudentService.linkProfileDocument
\* ------------------------------------------------------------------------
\* a row of application_profile_document_links; id tells the rows of one
\* (application, profileDocument) pair apart
Link(id, applicationId, profileDocument) ==
    [id |-> id, applicationId |-> applicationId, profileDocument |-> profileDocument]

\* the unique key applicationId_profileDocumentId holds a row of the pair
LinkTaken(applicationId, profileDocument) ==
    \E l \in links : /\ l.applicationId = applicationId
                     /\ l.profileDocument = profileDocument

\* the link a create inserts for the pair
NewLink(applicationId, profileDocument) ==
    Link(1 + Cardinality({l \in links : /\ l.applicationId = applicationId
                                        /\ l.profileDocument = profileDocument}),
         applicationId, profileDocument)

\* what the reads of linkProfileDocument decide
linkProfileDocumentGuard(u, a, profileDocument) ==
    IF ~profiles[u].exists THEN "Profile not found"
    ELSE IF ~OwnedApp(u, a) THEN "Application not found"
    ELSE IF apps[a].status # "DRAFT" THEN "Can only link documents to draft applications"
    ELSE IF profileDocument \notin profileDocs \/ profileDocument.studentProfileId # u
    THEN "Profile document not found"
    ELSE IF LinkTaken(a, profileDocument) THEN "Document already linked to this application"
    ELSE "OK"

\* the whole handler, alone
linkProfileDocument(u, a, profileDocument) ==
    /\ response' = Answer("linkProfileDocument", linkProfileDocumentGuard(u, a, profileDocument))
    /\ IF linkProfileDocumentGuard(u, a, profileDocument) # "OK"
       THEN UNCHANGED links
       ELSE links' = links \cup {NewLink(a, profileDocument)}
    /\ UNCHANGED <<reviewScores, applicationPeriods, profiles, profileDocs, apps, history, appDocs,
                   notifications, emails, snapshotWrites, reqs>>

\* step 1: the reads and the checks
linkProfileDocumentCheck(r, u, a, profileDocument) ==
    /\ Free(r)
    /\ reqs' = [reqs EXCEPT ![r] =
            IF linkProfileDocumentGuard(u, a, profileDocument) # "OK" THEN Idle
            ELSE [op |-> "linkProfileDocument", pc |-> "create",
                  applicationId |-> a, profileDocument |-> profileDocument]]
    /\ UNCHANGED <<store, response>>

\* step 2: prisma.applicationProfileDocumentLink.create; the insert is
\* refused where the pair is taken or the profile document is gone
linkProfileDocumentCreate(r) ==
    /\ reqs[r].op = "linkProfileDocument" /\ reqs[r].pc = "create"
    /\ IF \/ LinkTaken(reqs[r].applicationId, reqs[r].profileDocument)
          \/ reqs[r].profileDocument \notin profileDocs
       THEN UNCHANGED links
       ELSE links' = links \cup {NewLink(reqs[r].applicationId, reqs[r].profileDocument)}
    /\ reqs' = [reqs EXCEPT ![r] = Idle]
    /\ UNCHANGED <<reviewScores, applicationPeriods, profiles, profileDocs, apps, history, appDocs,
                   notifications, emails, snapshotWrites, response>>

\* ------------------------------------------------------------------------
\* Specifications
\* ------------------------------------------------------------------------
InitialProfile ==
    [exists |-> TRUE, fullName |-> "n1", nationalIdNumber |-> "id1",
     passportNumber |-> NULL, isComplete |-> TRUE]

\* the store after registration: every student has a complete profile with
\* the required documents, and no application yet
Init ==
    /\ profiles = [u \in Users |-> InitialProfile]
    /\ profileDocs = {ProfileDocument(u, t) : u \in Users, t \in RequiredProfileDocumentTypes}
    /\ apps = <<>>
    /\ history = <<>>
    /\ appDocs = <<>>
    /\ links = {}
    /\ notifications = <<>>
    /\ emails = <<>>
    /\ snapshotWrites = <<>>
    /\ reviewScores = <<>>
    /\ applicationPeriods = NoPeriods
    /\ reqs = [r \in Req |-> Idle]
    /\ response = NoAnswer

\* every handler runs alone
Next ==
    \/ \E u \in Users : createDraft(u)
    \/ \E u \in Users, a \in AppIds, t \in ApplicationDocumentTypes :
            uploadApplicationDocument(u, a, t)
    \/ \E u \in Users, a \in AppIds : submitApplication(u, a)
    \/ \E admin \in Admins, a \in AppIds, s \in Statuses, amount \in Amounts :
            updateApplicationStatus(admin, a, s, amount)
    \/ \E admin \in Admins, ids \in Batches, s \in Statuses : bulkUpdate(admin, ids, s)

Spec == Init /\ [][Next]_vars

\* every handler runs alone: the application lifecycle and the profile
NextProfile ==
    \/ \E u \in Users : createDraft(u)
    \/ \E u \in Users, a \in AppIds, t \in ApplicationDocumentTypes :
            uploadApplicationDocument(u, a, t)
    \/ \E u \in Users, a \in AppIds : submitApplication(u, a)
    \/ \E admin \in Admins, a \in AppIds, s \in Statuses, amount \in Amounts :
            updateApplicationStatus(admin, a, s, amount)
    \/ \E u \in Users, n \in Names : updateProfile(u, n)
    \/ \E u \in Users, t \in ProfileDocumentTypes : uploadProfileDocument(u, t)
    \/ \E u \in Users, t \in ProfileDocumentTypes : deleteProfileDocument(u, t)

SpecProfile == Init /\ [][NextProfile]_vars

\* createDraft requests interleave at their awaits, while the other
\* handlers run alone
NextCreate ==
    \/ \E r \in Req, u \in Users : createDraftCheck(r, u)
    \/ \E r \in Req : createDraftCount(r)
    \/ \E r \in Req : createDraftInsert(r)
    \/ \E u \in Users, a \in AppIds, t \in ApplicationDocumentTypes :
            uploadApplicationDocument(u, a, t)
    \/ \E u \in Users, a \in AppIds : submitApplication(u, a)
    \/ \E admin \in Admins, a \in AppIds, s \in Statuses, amount \in Amounts :
            updateApplicationStatus(admin, a, s, amount)

SpecCreate == Init /\ [][NextCreate]_vars

\* the requests on an application interleave at their awaits; the store
\* holds up to MaxRaceApps applications
NextRace ==
    \/ \E r \in Req, u \in Users :
            Len(apps) + PendingInserts < MaxRaceApps /\ createDraftCheck(r, u)
    \/ \E r \in Req : createDraftCount(r)
    \/ \E r \in Req : createDraftInsert(r)
    \/ \E r \in Req, u \in Users, a \in AppIds, t \in ApplicationDocumentTypes :
            UploadsBelow(a, MaxAppDocs) /\ uploadApplicationDocumentCheck(r, u, a, t)
    \/ \E r \in Req : uploadApplicationDocumentCreate(r)
    \/ \E r \in Req, u \in Users, a \in AppIds : submitApplicationCheck(r, u, a)
    \/ \E r \in Req : submitApplicationCommit(r)
    \/ \E r \in Req, a \in AppIds, s \in Statuses, amount \in Amounts :
            updateApplicationStatusCheck(r, a, s, amount)
    \/ \E r \in Req : updateApplicationStatusCommit(r)
    \/ \E r \in Req : updateApplicationStatusNotify(r)
    \/ \E r \in Req, ids \in Batches, s \in Statuses : bulkUpdateBegin(r, ids, s)
    \/ \E r \in Req : bulkUpdateCheck(r)

SpecRace == Init /\ [][NextRace]_vars

\* status updates whose sinks may fail, interleaved at their awaits, on
\* the drafts the student creates; the store holds up to MaxRaceApps
\* applications
NextSinks ==
    \/ \E r \in Req, u \in Users :
            Len(apps) + PendingInserts < MaxRaceApps /\ createDraftCheck(r, u)
    \/ \E r \in Req : createDraftCount(r)
    \/ \E r \in Req : createDraftInsert(r)
    \/ \E r \in Req, a \in AppIds, s \in Statuses, amount \in Amounts :
            updateApplicationStatusCheck(r, a, s, amount)
    \/ \E r \in Req : updateApplicationStatusCommit(r)
    \/ \E r \in Req, failed \in SinkFailures : updateApplicationStatusNotifyFailing(r, failed)

SpecSinks == Init /\ [][NextSinks]_vars

\* the store after the registration of two students, each with a complete
\* profile and the required documents
InitBulk ==
    /\ profiles = [u \in BulkUsers |-> InitialProfile]
    /\ profileDocs = {ProfileDocument(u, t) : u \in BulkUsers, t \in RequiredProfileDocumentTypes}
    /\ apps = <<>>
    /\ history = <<>>
    /\ appDocs = <<>>
    /\ links = {}
    /\ notifications = <<>>
    /\ emails = <<>>
    /\ snapshotWrites = <<>>
    /\ reviewScores = <<>>
    /\ applicationPeriods = NoPeriods
    /\ reqs = [r \in Req |-> Idle]
    /\ response = NoAnswer

\* the administrator's handlers run alone over the drafts of two students
NextBulk ==
    \/ \E u \in BulkUsers : createDraft(u)
    \/ \E admin \in Admins, a \in AppIds, s \in Statuses, amount \in Amounts :
            updateApplicationStatus(admin, a, s, amount)
    \/ \E admin \in Admins, ids \in BulkBatches, s \in Statuses : bulkUpdate(admin, ids, s)

SpecBulk == InitBulk /\ [][NextBulk]_vars


\* scoreApplication requests of two reviewers interleave at their awaits,
\* on the draft the student creates
NextScore ==
    \/ \E u \in Users : createDraft(u)
    \/ \E r \in Req, a \in AppIds, reviewer \in Reviewers, scores \in ScoreBodies :
            scoreApplicationFind(r, a, reviewer, scores)
    \/ \E r \in Req : scoreApplicationUpsertRead(r)
    \/ \E r \in Req : scoreApplicationUpsertWrite(r)

SpecScore == Init /\ [][NextScore]_vars

\* the administrator's requests on application periods, one activation at
\* a time, which may be lost inside its transaction
NextPeriod ==
    \/ \E window \in Windows : createApplicationPeriod(window)
    \/ \E id \in PeriodIds : deleteApplicationPeriod(id)
    \/ \E id \in PeriodIds : activateApplicationPeriodFind(1, id)
    \/ activateApplicationPeriodDeactivate(1)
    \/ activateApplicationPeriodActivate(1)
    \/ activateApplicationPeriodCommit(1)
    \/ activateApplicationPeriodCrash(1)

SpecPeriod == Init /\ [][NextPeriod]_vars

\* activations interleave at their awaits
NextPeriodRace ==
    \/ \E window \in Windows : createApplicationPeriod(window)
    \/ \E id \in PeriodIds : deleteApplicationPeriod(id)
    \/ \E r \in Req, id \in PeriodIds : activateApplicationPeriodFind(r, id)
    \/ \E r \in Req : activateApplicationPeriodDeactivate(r)
    \/ \E r \in Req : activateApplicationPeriodResume(r)
    \/ \E r \in Req : activateApplicationPeriodActivate(r)
    \/ \E r \in Req : activateApplicationPeriodCommit(r)
    \/ \E r \in Req : activateApplicationPeriodCrash(r)

SpecPeriodRace == Init /\ [][NextPeriodRace]_vars

\* the store after the registration of the students, before any profile
InitEligibility ==
    /\ profiles = [u \in Users |-> NoProfile]
    /\ profileDocs = {}
    /\ apps = <<>>
    /\ history = <<>>
    /\ appDocs = <<>>
    /\ links = {}
    /\ notifications = <<>>
    /\ emails = <<>>
    /\ snapshotWrites = <<>>
    /\ reviewScores = <<>>
    /\ applicationPeriods = NoPeriods
    /\ reqs = [r \in Req |-> Idle]
    /\ response = NoAnswer

\* every handler runs alone: the profile, its documents, the application
\* lifecycle and the eligibility request
NextEligibility ==
    \/ \E u \in Users, n \in Names, id \in NationalIds, p \in PassportNumbers :
            createProfile(u, n, id, p)
    \/ \E u \in Users, t \in ProfileDocumentTypes : uploadProfileDocument(u, t)
    \/ \E u \in Users, t \in ProfileDocumentTypes : deleteProfileDocument(u, t)
    \/ \E u \in Users : createDraft(u)
    \/ \E admin \in Admins, a \in AppIds, s \in Statuses, amount \in Amounts :
            updateApplicationStatus(admin, a, s, amount)
    \/ \E u \in Users : checkEligibilityRequest(u)

SpecEligibility == InitEligibility /\ [][NextEligibility]_vars

\* the application window: periods are created and activated, one
\* activation at a time, while the student asks for eligibility and
\* creates a draft
NextWindow ==
    \/ \E window \in Windows : createApplicationPeriod(window)
    \/ \E id \in PeriodIds : activateApplicationPeriodFind(1, id)
    \/ activateApplicationPeriodDeactivate(1)
    \/ activateApplicationPeriodActivate(1)
    \/ activateApplicationPeriodCommit(1)
    \/ \E u \in Users : checkEligibilityRequest(u)
    \/ \E u \in Users : createDraft(u)

SpecWindow == Init /\ [][NextWindow]_vars

\* a student's draft edits interleaved at their awaits with the uploads and
\* the submission of the same application; the store holds up to
\* MaxRaceApps applications
NextDraft ==
    \/ \E r \in Req, u \in Users :
            Len(apps) + PendingInserts < MaxRaceApps /\ createDraftCheck(r, u)
    \/ \E r \in Req : createDraftCount(r)
    \/ \E r \in Req : createDraftInsert(r)
    \/ \E r \in Req, u \in Users, a \in AppIds, t \in ApplicationDocumentTypes :
            UploadsBelow(a, MaxDraftDocs) /\ uploadApplicationDocumentCheck(r, u, a, t)
    \/ \E r \in Req : uploadApplicationDocumentCreate(r)
    \/ \E r \in Req, u \in Users, a \in AppIds, w \in Narratives :
            updateDraftCheck(r, u, a, w)
    \/ \E r \in Req : updateDraftWrite(r)
    \/ \E u \in Users, a \in AppIds, w \in Narratives : updateDraft(u, a, w)
    \/ \E r \in Req, u \in Users, a \in AppIds : submitApplicationCheck(r, u, a)
    \/ \E r \in Req : submitApplicationCommit(r)

SpecDraft == Init /\ [][NextDraft]_vars

\* the links of a draft to the profile's documents, the deletion of those
\* documents and the submission of the draft, interleaved at their awaits;
\* the store holds up to MaxRaceApps applications
NextLink ==
    \/ \E r \in Req, u \in Users :
            Len(apps) + PendingInserts < MaxRaceApps /\ createDraftCheck(r, u)
    \/ \E r \in Req : createDraftCount(r)
    \/ \E r \in Req : createDraftInsert(r)
    \/ \E u \in Users, a \in AppIds, t \in ApplicationDocumentTypes :
            uploadApplicationDocument(u, a, t)
    \/ \E u \in Users, a \in AppIds, t \in RequiredProfileDocumentTypes :
            linkProfileDocument(u, a, ProfileDocument(u, t))
    \/ \E r \in Req, u \in Users, a \in AppIds, t \in RequiredProfileDocumentTypes :
            linkProfileDocumentCheck(r, u, a, ProfileDocument(u, t))
    \/ \E r \in Req : linkProfileDocumentCreate(r)
    \/ \E r \in Req, u \in Users, a \in AppIds : submitApplicationCheck(r, u, a)
    \/ \E r \in Req : submitApplicationCommit(r)
    \/ \E u \in Users, t \in RequiredProfileDocumentTypes : deleteProfileDocument(u, t)
    \/ \E r \in Req, u \in Users, t \in RequiredProfileDocumentTypes :
            deleteProfileDocumentCheck(r, u, t)
    \/ \E r \in Req : deleteProfileDocumentDelete(r)
    \/ \E r \in Req : deleteProfileDocumentCompleteness(r)

SpecLink == Init /\ [][NextLink]_vars

\* the uploads and deletions of a profile's documents interleaved at their
\* awaits, on a profile created without documents
NextUpload ==
    \/ \E u \in Users, n \in Names, i \in NationalIds : createProfile(u, n, i, NULL)
    \/ \E u \in Users, t \in RequiredProfileDocumentTypes : uploadProfileDocument(u, t)
    \/ \E r \in Req, u \in Users, t \in RequiredProfileDocumentTypes :
            uploadProfileDocumentCheck(r, u, t)
    \/ \E r \in Req : uploadProfileDocumentUpdate(r)
    \/ \E r \in Req : uploadProfileDocumentCreate(r)
    \/ \E r \in Req : uploadProfileDocumentCompleteness(r)
    \/ \E r \in Req, u \in Users, t \in RequiredProfileDocumentTypes :
            deleteProfileDocumentCheck(r, u, t)
    \/ \E r \in Req : deleteProfileDocumentDelete(r)
    \/ \E r \in Req : deleteProfileDocumentCompleteness(r)

SpecUpload == InitEligibility /\ [][NextUpload]_vars

\* the completeness evaluator on every profile row and document set: a
\* profile that may lack its name or its identification, and up to two
\* rows of each required document type
InitCompleteness ==
    /\ profiles \in [Users -> {NoProfile} \cup
            [exists : {TRUE}, fullName : {NULL, "", "n1"}, nationalIdNumber : {NULL, "id1"},
             passportNumber : {NULL, "p1"}, isComplete : {FALSE}]]
    /\ profileDocs \in SUBSET {[ProfileDocument(u, t) EXCEPT !.id = n] :
                                  u \in Users, t \in RequiredProfileDocumentTypes, n \in 1..2}
    /\ \A d \in profileDocs : profiles[d.studentProfileId].exists
    /\ apps = <<>>
    /\ history = <<>>
    /\ appDocs = <<>>
    /\ links = {}
    /\ notifications = <<>>
    /\ emails = <<>>
    /\ snapshotWrites = <<>>
    /\ reviewScores = <<>>
    /\ applicationPeriods = NoPeriods
    /\ reqs = [r \in Req |-> Idle]
    /\ response = NoAnswer

\* GET /profile/completeness: the evaluator's answer, kept with the user
\* it was asked for
getProfileCompletenessRequest(u) ==
    /\ response' = [op |-> "getProfileCompleteness", ok |-> TRUE, userId |-> u,
                    data |-> getProfileCompleteness(u)]
    /\ UNCHANGED <<store, reqs>>

NextCompleteness == \E u \in Users : getProfileCompletenessRequest(u)

SpecCompleteness == InitCompleteness /\ [][NextCompleteness]_vars

\* the reviewers score the application of the student, every request
\* running alone
NextReview ==
    \/ \E u \in Users : createDraft(u)
    \/ \E a \in AppIds, reviewer \in Reviewers, body \in ScoreRequests :
            scoreApplication(a, reviewer, body)
    \/ \E a \in AppIds : getApplicationScores(a)

SpecReview == Init /\ [][NextReview]_vars

\* two students, each calling the handlers that take an application id
\* with every id, the other student's included; every handler runs alone
NextOwner ==
    \/ \E u \in BulkUsers : createDraft(u)
    \/ \E u \in BulkUsers, a \in AppIds, w \in Narratives : updateDraft(u, a, w)
    \/ \E u \in BulkUsers, a \in AppIds, t \in ApplicationDocumentTypes :
            uploadApplicationDocument(u, a, t)
    \/ \E u \in BulkUsers, a \in AppIds, d \in profileDocs : linkProfileDocument(u, a, d)
    \/ \E u \in BulkUsers, a \in AppIds : submitApplication(u, a)
    \/ \E u \in BulkUsers, a \in AppIds : getApplication(u, a)
    \/ \E u \in BulkUsers, a \in AppIds : getApplicationHistory(u, a)

SpecOwner == InitBulk /\ [][NextOwner]_vars
\* ------------------------------------------------------------------------
\* Properties of the status history
\* ------------------------------------------------------------------------
\* C1: the history rows of every application, oldest first, are a walk of
\* the transition graph from DRAFT: the first row is null -> DRAFT, each
\* later row starts at the status the row before it ended at, and each
\* later row is one of the five edges DRAFT -> PENDING, PENDING ->
\* UNDER_REVIEW, UNDER_REVIEW -> APPROVED, UNDER_REVIEW -> REJECTED,
\* APPROVED -> DISBURSED
HistoryIsValidWalk ==
    \A a \in 1..Len(history) :
        LET h == history[a]
            edges == {<<"DRAFT", "PENDING">>, <<"PENDING", "UNDER_REVIEW">>,
                      <<"UNDER_REVIEW", "APPROVED">>, <<"UNDER_REVIEW", "REJECTED">>,
                      <<"APPROVED", "DISBURSED">>}
        IN /\ Len(h) >= 1
           /\ h[1].previousStatus = NULL /\ h[1].newStatus = "DRAFT"
           /\ \A i \in 2..Len(h) :
                /\ h[i].previousStatus = h[i - 1].newStatus
                /\ <<h[i].previousStatus, h[i].newStatus>> \in edges

\* C2: every profile has at most one application in DRAFT, PENDING or
\* UNDER_REVIEW
AtMostOneActiveApplication ==
    \A u \in Users :
        Cardinality({a \in 1..Len(apps) :
                        /\ apps[a].studentProfileId = u
                        /\ apps[a].status \in {"DRAFT", "PENDING", "UNDER_REVIEW"}}) <= 1

\* C3: status updates of one application are serialized: the transaction
\* of an administrator's update commits a row only if its target is an
\* allowed edge from the status the application has when it commits, so
\* of two conflicting transitions out of one status only one commits
StatusUpdatesSerialized ==
    [][\A a \in 1..Len(apps) :
          (/\ Len(history'[a]) = Len(history[a]) + 1
           /\ ~history'[a][Len(history'[a])].autoGenerated)
          => /\ history'[a][Len(history'[a])].previousStatus = apps[a].status
             /\ <<apps[a].status, apps'[a].status>> \in
                    {<<"DRAFT", "PENDING">>, <<"PENDING", "UNDER_REVIEW">>,
                     <<"UNDER_REVIEW", "APPROVED">>, <<"UNDER_REVIEW", "REJECTED">>,
                     <<"APPROVED", "DISBURSED">>}]_vars

\* C4: a status of REJECTED or DISBURSED never changes again, and the
\* status of an existing application never becomes DRAFT
TerminalAbsorbingNoDraftReentry ==
    [][\A a \in 1..Len(apps) :
          /\ apps[a].status \in {"REJECTED", "DISBURSED"}
                => apps'[a].status = apps[a].status
          /\ apps[a].status # "DRAFT" => apps'[a].status # "DRAFT"]_vars

SubmitWithoutFeeStructureRejected ==
    [][\A u \in Users, a \in 1..Len(apps) :
          (/\ profiles[u].exists
           /\ apps[a].studentProfileId = u
           /\ apps[a].status = "DRAFT"
           /\ \A i \in 1..Len(appDocs[a]) : appDocs[a][i] # "FEE_STRUCTURE"
           /\ submitApplication(u, a))
          => /\ ~response'.ok
             /\ response'.code = "VALIDATION_ERROR"
             /\ apps'[a].status = "DRAFT"
             /\ apps'[a].submittedAt = NoTime
             /\ apps'[a].snapshotFullName = NULL
             /\ snapshotWrites'[a] = snapshotWrites[a]
             /\ history'[a] = history[a]]_vars

\* a submission of a draft was refused for the missing fee structure
SubmitWithoutFeeStructureAnswered ==
    /\ response.op = "submitApplication"
    /\ response.code = "VALIDATION_ERROR"
    /\ response.message
            = "Please upload the current fee structure document before submitting"
    /\ \E a \in 1..Len(apps) :
            /\ apps[a].status = "DRAFT"
            /\ \A i \in 1..Len(appDocs[a]) : appDocs[a][i] # "FEE_STRUCTURE"

\* C8: every application that has left DRAFT has submittedAt set, its
\* snapshot populated and at least one FEE_STRUCTURE document
LeftDraftOnlyBySubmission ==
    \A a \in 1..Len(apps) :
        apps[a].status # "DRAFT"
        => /\ apps[a].submittedAt # NoTime
           /\ apps[a].snapshotFullName # NULL
           /\ \E i \in 1..Len(appDocs[a]) : appDocs[a][i] = "FEE_STRUCTURE"

\* C9: a successful updateProfile, profile document upload or profile
\* document delete leaves the snapshot and submittedAt of every submitted
\* application as they were
SnapshotFrozenAfterSubmit ==
    [][\A a \in 1..Len(apps) :
          (/\ apps[a].submittedAt # NoTime
           /\ response'.op \in {"updateProfile", "uploadProfileDocument",
                                "deleteProfileDocument"}
           /\ response'.ok)
          => /\ apps'[a].snapshotFullName = apps[a].snapshotFullName
             /\ apps'[a].submittedAt = apps[a].submittedAt]_vars

\* the profile of a submitted application was renamed after the submission
ProfileRenamedAfterSubmit ==
    /\ response.op = "updateProfile"
    /\ response.ok
    /\ \E a \in 1..Len(apps) :
            /\ apps[a].submittedAt # NoTime
            /\ apps[a].snapshotFullName # NULL
            /\ apps[a].snapshotFullName # profiles[apps[a].studentProfileId].fullName

\* C10: the snapshot columns and submittedAt of an application are written
\* at most once, and submissions add at most one DRAFT -> PENDING row to
\* its history
SnapshotWrittenOnce ==
    \A a \in 1..Len(apps) :
        /\ snapshotWrites[a] <= 1
        /\ Cardinality({i \in 1..Len(history[a]) :
                            /\ history[a][i].previousStatus = "DRAFT"
                            /\ history[a][i].newStatus = "PENDING"
                            /\ history[a][i].autoGenerated}) <= 1

\* ------------------------------------------------------------------------
\* Properties of the administrator's status update
\* ------------------------------------------------------------------------
\* C11: an application in DISBURSED has a positive disbursedAmount and
\* disbursedAt set, and an application in any other status has neither
DisbursementFieldsMatchStatus ==
    \A a \in 1..Len(apps) :
        IF apps[a].status = "DISBURSED"
        THEN /\ apps[a].disbursedAmount # Absent
             /\ apps[a].disbursedAmount[1] > 0
             /\ apps[a].disbursedAt # NoTime
        ELSE /\ apps[a].disbursedAmount = Absent
             /\ apps[a].disbursedAt = NoTime

\* C12: a successful updateApplicationStatus on an application that is not
\* DRAFT changes, of that application, only status, reviewedAt and
\* reviewedBy (and disbursedAmount and disbursedAt when the target is
\* DISBURSED) and appends one row to its history; its working fields, its
\* snapshot, its submittedAt, its documents and links, and every other
\* application and history, are as before
AdminTransitionFrame ==
    [][\A admin \in Admins, a \in 1..Len(apps), s \in Statuses, amount \in Amounts :
          (/\ apps[a].status # "DRAFT"
           /\ updateApplicationStatus(admin, a, s, amount)
           /\ response'.ok)
          => /\ Len(apps') = Len(apps)
             /\ apps'[a].status = s
             /\ apps'[a] =
                   IF s = "DISBURSED"
                   THEN [apps[a] EXCEPT !.status = s,
                                        !.reviewedAt = apps'[a].reviewedAt,
                                        !.reviewedBy = apps'[a].reviewedBy,
                                        !.disbursedAmount = apps'[a].disbursedAmount,
                                        !.disbursedAt = apps'[a].disbursedAt]
                   ELSE [apps[a] EXCEPT !.status = s,
                                        !.reviewedAt = apps'[a].reviewedAt,
                                        !.reviewedBy = apps'[a].reviewedBy]
             /\ Len(history'[a]) = Len(history[a]) + 1
             /\ SubSeq(history'[a], 1, Len(history[a])) = history[a]
             /\ \A b \in 1..Len(apps) :
                    b # a => apps'[b] = apps[b] /\ history'[b] = history[b]
             /\ appDocs' = appDocs
             /\ links' = links
             /\ snapshotWrites' = snapshotWrites
             /\ profiles' = profiles
             /\ profileDocs' = profileDocs]_vars

\* an administrator disbursed a submitted application while the student
\* held a draft of another one
DisbursedBesideADraft ==
    /\ response.op = "updateApplicationStatus"
    /\ response.ok
    /\ \E a, b \in 1..Len(apps) :
            /\ apps[a].status = "DISBURSED"
            /\ apps[a].snapshotFullName # NULL
            /\ apps[a].submittedAt # NoTime
            /\ apps[b].status = "DRAFT"

\* C13: every notification and email handed to a sink belongs to a status
\* update whose transaction committed (a history row written by an
\* administrator); the sinks receive something only in the last step of a
\* call, and a call is at its last step only with its own row committed,
\* so a call refused by the validation hands nothing to a sink; and
\* whatever fails in that last step, the application and its history stay
\* as committed and the caller gets the success answer
SideEffectsAfterCommitBestEffort ==
    /\ [](\A a \in 1..Len(apps) :
            /\ \A n \in notifications[a] :
                  \E i \in 2..Len(history[a]) :
                      /\ ~history[a][i].autoGenerated
                      /\ history[a][i].previousStatus = n.previousStatus
                      /\ history[a][i].newStatus = n.newStatus
            /\ \A e \in emails[a] :
                  \E i \in 2..Len(history[a]) :
                      /\ ~history[a][i].autoGenerated
                      /\ history[a][i].newStatus = e.newStatus)
    /\ [][(notifications' # notifications \/ emails' # emails)
            => \/ Len(apps') > Len(apps)
               \/ \E r \in Req : /\ reqs[r].op = "updateApplicationStatus"
                                 /\ reqs[r].pc = "notify"
                                 /\ reqs'[r] = Idle]_vars
    /\ [](\A r \in Req :
            (reqs[r].op = "updateApplicationStatus" /\ reqs[r].pc = "notify")
            => \E i \in 2..Len(history[reqs[r].applicationId]) :
                  /\ ~history[reqs[r].applicationId][i].autoGenerated
                  /\ history[reqs[r].applicationId][i].previousStatus
                        = reqs[r].previousStatus
                  /\ history[reqs[r].applicationId][i].newStatus = reqs[r].newStatus)
    /\ [][\A r \in Req, failed \in SinkFailures :
            updateApplicationStatusNotifyFailing(r, failed)
            => /\ apps' = apps
               /\ history' = history
               /\ response'.ok
               /\ response'.op = "updateApplicationStatus"]_vars

\* a status update committed and returned while nothing reached the sinks
CommittedWithoutSideEffects ==
    /\ response.op = "updateApplicationStatus"
    /\ response.ok
    /\ \A r \in Req : reqs[r] = Idle
    /\ \E a \in 1..Len(apps) :
            /\ apps[a].status = "UNDER_REVIEW"
            /\ Len(history[a]) = 3
            /\ Cardinality(notifications[a]) = 1
            /\ emails[a] = {}

\* ------------------------------------------------------------------------
\* Properties of bulkUpdate
\* ------------------------------------------------------------------------
\* C14: bulkUpdate goes through the whole batch: in its answer updated +
\* failed is the number of ids sent, errors has one entry for each failure,
\* the entries carry ids of the batch in batch order, and success is
\* failed = 0
BulkUpdateCountsEveryId ==
    response.op = "bulkUpdate"
    => LET ids == response.applicationIds
           errors == response.errors
       IN /\ response.updated + response.failed = Len(ids)
          /\ Len(errors) = response.failed
          /\ \E f \in [1..Len(errors) -> 1..Len(ids)] :
                /\ \A k \in 1..Len(errors) : ids[f[k]] = errors[k].applicationId
                /\ \A j, k \in 1..Len(errors) : j < k => f[j] < f[k]
          /\ response.success = (response.failed = 0)

\* a batch of three ids was answered with two updated and one failed
BulkUpdateMixedAnswer ==
    /\ response.op = "bulkUpdate"
    /\ Len(response.applicationIds) = 3
    /\ response.updated = 2
    /\ response.failed = 1
    /\ ~response.success
    /\ Len(response.errors) = 1

OneScorePerPairAveraged ==
    /\ [](\A i, j \in 1..Len(reviewScores) :
              i < j => \/ reviewScores[i].applicationId # reviewScores[j].applicationId
                       \/ reviewScores[i].reviewerId # reviewScores[j].reviewerId)
    /\ [](\A i \in 1..Len(reviewScores) :
              /\ reviewScores[i].overallScore.den = 4
              /\ reviewScores[i].overallScore.num
                     = reviewScores[i].financialNeed + reviewScores[i].academicMerit
                       + reviewScores[i].communityImpact + reviewScores[i].vulnerability)
    /\ [][\A r \in Req :
              /\ reqs[r].op = "scoreApplication"
              /\ reqs[r].pc = "write"
              /\ reqs[r].found
              /\ reqs'[r] = Idle
              => /\ Len(reviewScores') = Len(reviewScores)
                 /\ \E i \in 1..Len(reviewScores) :
                       /\ reviewScores[i].applicationId = reqs[r].applicationId
                       /\ reviewScores[i].reviewerId = reqs[r].reviewerId
                       /\ reviewScores'[i].financialNeed = reqs[r].scores.financialNeed
                       /\ reviewScores'[i].academicMerit = reqs[r].scores.academicMerit
                       /\ reviewScores'[i].communityImpact = reqs[r].scores.communityImpact
                       /\ reviewScores'[i].vulnerability = reqs[r].scores.vulnerability
                       /\ \A j \in 1..Len(reviewScores) : j # i => reviewScores'[j] = reviewScores[j]]_vars

\* both reviewers scored application 1, and one of them scored it a second
\* time with a body that carried an overallScore of 5: that row was written
\* twice and holds 10/4
ScoredTwiceBySameReviewer ==
    /\ Len(reviewScores) = 2
    /\ \E i \in 1..2 :
          /\ reviewScores[i].updatedAt = 2
          /\ reviewScores[i].financialNeed = 1
          /\ reviewScores[i].vulnerability = 4
          /\ reviewScores[i].overallScore = Quotient(10, 4)

\* C17: an activation that commits leaves exactly its target active; one
\* that is lost inside its transaction, or refused because the period does
\* not exist, leaves every period as it was; and the committed table never
\* goes from some active period to none
ActivationIsAtomic ==
    /\ [][activateApplicationPeriodCommit(1)
          => ActivePeriods(applicationPeriods') = {reqs[1].id}]_vars
    /\ [][activateApplicationPeriodCrash(1) => applicationPeriods' = applicationPeriods]_vars
    /\ [][/\ response'.op = "activateApplicationPeriod"
          /\ response'.message = "Application period not found"
          => applicationPeriods' = applicationPeriods]_vars
    /\ [][ActivePeriods(applicationPeriods) # {}
          => ActivePeriods(applicationPeriods') # {}]_vars

\* the activation of period 2 is inside its transaction, after the
\* deactivation of period 1 and before the commit: the table still shows
\* period 1 as the active one
DeactivatedInsideTransaction ==
    /\ reqs[1].op = "activateApplicationPeriod"
    /\ reqs[1].pc = "commit"
    /\ reqs[1].id = 2
    /\ reqs[1].matched = {1}
    /\ ActivePeriods(applicationPeriods) = {1}

\* C18: at most one application period is active
AtMostOneActivePeriod == Cardinality(ActivePeriods(applicationPeriods)) <= 1

ApplicationWindowOpen ==
    \E p \in 1..Len(applicationPeriods) :
        /\ ~applicationPeriods[p].deleted
        /\ applicationPeriods[p].isActive
        /\ applicationPeriods[p].window = "current"

\* C20: while the application window is closed, checkEligibility answers
\* canApply = false and createDraft creates no application
ClosedWindowRefuses ==
    [][~ApplicationWindowOpen
       => /\ response'.op = "checkEligibility" => ~response'.data.canApply
          /\ Len(apps') = Len(apps)]_vars

\* C21: createDraft succeeds exactly when the caller's profile exists, is
\* complete and has no application in DRAFT, PENDING or UNDER_REVIEW.
\* Otherwise it fails with the reason ('Profile not found' when there is no
\* profile) and creates neither an application nor a history row; on
\* success it adds one application in DRAFT with null snapshot and, with it,
\* one history row from null to DRAFT
CreateDraftOnlyWhenEligible ==
    [][\A u \in Users :
          createDraft(u)
          => LET exists == profiles[u].exists
                 complete == profileCompleteness(profiles[u], profileDocs, u).isComplete
                 active == {a \in 1..Len(apps) :
                               /\ apps[a].studentProfileId = u
                               /\ apps[a].status \in {"DRAFT", "PENDING", "UNDER_REVIEW"}}
                 new == Len(apps) + 1
             IN IF exists /\ complete /\ active = {}
                THEN /\ response'.ok
                     /\ Len(apps') = new
                     /\ SubSeq(apps', 1, Len(apps)) = apps
                     /\ apps'[new].studentProfileId = u
                     /\ apps'[new].status = "DRAFT"
                     /\ apps'[new].snapshotFullName = NULL
                     /\ apps'[new].submittedAt = NoTime
                     /\ Len(history') = new
                     /\ SubSeq(history', 1, Len(history)) = history
                     /\ Len(history'[new]) = 1
                     /\ history'[new][1].previousStatus = NULL
                     /\ history'[new][1].newStatus = "DRAFT"
                ELSE /\ ~response'.ok
                     /\ response'.message =
                            IF ~exists THEN "Profile not found"
                            ELSE IF ~complete THEN "Profile is incomplete."
                            ELSE "You already have an active application."
                     /\ apps' = apps
                     /\ history' = history]_vars

\* a second createDraft was refused because of the draft the first one
\* created, which is still the only application, with its one history row
SecondDraftRefused ==
    /\ response.op = "createDraft"
    /\ ~response.ok
    /\ response.message = "You already have an active application."
    /\ Len(apps) = 1
    /\ apps[1].status = "DRAFT"
    /\ Len(history[1]) = 1

\* C21 as stated: a createDraft that fails, fails with the reason
\* checkEligibility reports for the caller, and creates nothing
CreateDraftFailsWithEligibilityReason ==
    [][\A u \in Users :
          createDraft(u) /\ ~checkEligibility(u).canApply
          => /\ ~response'.ok
             /\ response'.message = checkEligibility(u).reason
             /\ apps' = apps
             /\ history' = history]_vars

\* C22: the sequence numbers of the applicationNumbers increase strictly
\* with the creation order, so no two applications share an
\* applicationNumber
ApplicationNumbersIncrease ==
    \A a, b \in 1..Len(apps) :
        a < b => /\ apps[a].applicationNumber # apps[b].applicationNumber
                 /\ apps[a].applicationNumber[2] < apps[b].applicationNumber[2]

\* two createDraft calls of the same student interleaved: both passed the
\* eligibility check, both inserted, and the drafts carry the numbers 1 and 2
TwoDraftsNumberedInOrder ==
    /\ Len(apps) = 2
    /\ apps[1].status = "DRAFT" /\ apps[2].status = "DRAFT"
    /\ apps[1].applicationNumber = generateApplicationNumber(1)
    /\ apps[2].applicationNumber = generateApplicationNumber(2)

\* ------------------------------------------------------------------------
\* C23: updateDraft succeeds only on a DRAFT application: once an
\* application has left DRAFT its working fields are read-only to the
\* student, and no interleaving with submitApplication lets a working-field
\* write commit after the status has become PENDING.
\* ------------------------------------------------------------------------
WorkingFieldsReadOnlyAfterDraft ==
    [][\A a \in 1..Len(apps) :
            apps[a].status # "DRAFT"
                => apps'[a].hardshipNarrative = apps[a].hardshipNarrative]_vars

\* ------------------------------------------------------------------------
\* C24: uploadApplicationDocument is allowed only while the application is
\* in DRAFT, so the application documents of an application never change
\* after it has left DRAFT.
\* ------------------------------------------------------------------------
DocumentsFrozenAfterDraft ==
    [][\A a \in 1..Len(apps) :
            apps[a].status # "DRAFT" => appDocs'[a] = appDocs[a]]_vars

\* ------------------------------------------------------------------------
\* C25: linkProfileDocument creates a link only when the application is in
\* DRAFT, the profile document belongs to the application's owning profile
\* and no link of the pair exists; hence there is at most one link per
\* (application, profileDocument) pair and every link joins an application
\* and a profile document of the same StudentProfile.
\* ------------------------------------------------------------------------
LinkCreatedOnlyForDraft ==
    /\ [][\A l \in links' \ links :
            /\ apps[l.applicationId].status = "DRAFT"
            /\ l.profileDocument \in profileDocs
            /\ l.profileDocument.studentProfileId = apps[l.applicationId].studentProfileId
            /\ ~\E k \in links : /\ k.applicationId = l.applicationId
                                 /\ k.profileDocument = l.profileDocument]_vars
    /\ [](\A l, k \in links :
            /\ l.applicationId = k.applicationId /\ l.profileDocument = k.profileDocument => l = k
            /\ l.profileDocument.studentProfileId = apps[l.applicationId].studentProfileId)

\* ------------------------------------------------------------------------
\* C26: deleteProfileDocument fails and deletes nothing whenever the
\* document is linked to an application whose status is PENDING or
\* UNDER_REVIEW; in every reachable state, the interleavings of
\* deleteProfileDocument with submitApplication included, every profile
\* document linked to a PENDING or UNDER_REVIEW application still exists.
\* ------------------------------------------------------------------------
DocumentLinkedUnderReviewKept ==
    /\ [][\A l \in links :
            apps[l.applicationId].status \in {"PENDING", "UNDER_REVIEW"}
                => l \in links' /\ l.profileDocument \in profileDocs']_vars
    /\ [](\A l \in links :
            apps[l.applicationId].status \in {"PENDING", "UNDER_REVIEW"}
                => l.profileDocument \in profileDocs)

\* ------------------------------------------------------------------------
\* C27: deletion of a ProfileDocument is blocked while it is linked to an
\* application whose status is DRAFT, PENDING, UNDER_REVIEW or APPROVED:
\* deleteProfileDocument fails and the document and its links remain.
\* ------------------------------------------------------------------------
DocumentLinkedNonTerminalKept ==
    [][\A l \in links :
            apps[l.applicationId].status \in {"DRAFT", "PENDING", "UNDER_REVIEW", "APPROVED"}
                => l \in links' /\ l.profileDocument \in profileDocs']_vars

\* ------------------------------------------------------------------------
\* C28: a StudentProfile is edit-locked while it has an active application:
\* updateProfile fails and changes no profile field whenever the profile
\* has an application in DRAFT, PENDING or UNDER_REVIEW.
\* ------------------------------------------------------------------------
ProfileEditLockedWhileActive ==
    [][\A u \in Users, n \in Names :
            updateProfile(u, n) /\ activeApplications(u) # {}
                => ~response'.ok /\ profiles' = profiles]_vars

\* ------------------------------------------------------------------------
\* C29: in every reachable state there is at most one ProfileDocument per
\* (profile, documentType), two uploads of the same type for the same
\* profile running concurrently included.
\* ------------------------------------------------------------------------
OneProfileDocumentPerType ==
    \A d, e \in profileDocs :
        d.studentProfileId = e.studentProfileId /\ d.documentType = e.documentType => d = e

\* ------------------------------------------------------------------------
\* C30: the cached StudentProfile.isComplete always agrees with the
\* completeness evaluator: after every completed createProfile,
\* updateProfile, uploadProfileDocument and deleteProfileDocument the stored
\* isComplete equals getProfileCompleteness(...).isComplete.
\* ------------------------------------------------------------------------
CachedIsCompleteAgrees ==
    \A u \in Users :
        profiles[u].exists => profiles[u].isComplete = getProfileCompleteness(u).isComplete

StoredScoresInRange ==
    /\ [](\A i \in 1..Len(reviewScores) :
            /\ reviewScores[i].financialNeed \in 1..5
            /\ reviewScores[i].academicMerit \in 1..5
            /\ reviewScores[i].communityImpact \in 1..5
            /\ reviewScores[i].vulnerability \in 1..5
            /\ reviewScores[i].overallScore.den <= reviewScores[i].overallScore.num
            /\ reviewScores[i].overallScore.num <= 5 * reviewScores[i].overallScore.den)
    /\ [][\A a \in AppIds, reviewer \in Reviewers, body \in ScoreRequests :
            /\ scoreApplication(a, reviewer, body)
            /\ \E dimension \in {body.financialNeed, body.academicMerit,
                                 body.communityImpact, body.vulnerability} :
                    dimension < 1 \/ dimension > 5
            => /\ ~response'.ok
               /\ response'.message = "Validation failed"
               /\ reviewScores' = reviewScores]_vars

OutOfRangeScoreRefused ==
    /\ response.op = "scoreApplication" /\ response.message = "Validation failed"
    /\ Len(apps) = 1
    /\ Len(reviewScores) = 1 /\ reviewScores[1].vulnerability = 5

\* ------------------------------------------------------------------------
\* C33: review scores are attached only to submitted applications:
\* scoreApplication on an application that is still in DRAFT fails and
\* creates no row, so no ReviewScore refers to an application in DRAFT.
\* ------------------------------------------------------------------------
ScoresOnlyOnSubmitted ==
    \A i \in 1..Len(reviewScores) : apps[reviewScores[i].applicationId].status # "DRAFT"

\* ------------------------------------------------------------------------
\* C34: getApplicationScores answers totalReviewers equal to the number of
\* ReviewScore rows of the application (one per distinct reviewer),
\* averageScore equal to the sum of their overallScore values divided by
\* that number, and averageScore null (not 0) exactly when the application
\* has no scores.
\* ------------------------------------------------------------------------
AverageScoreIsMeanOrNull ==
    [][\A a \in AppIds :
        getApplicationScores(a) =>
            LET rows == {i \in 1..Len(reviewScores) : reviewScores[i].applicationId = a}
                quarters(i) == reviewScores[i].financialNeed + reviewScores[i].academicMerit
                               + reviewScores[i].communityImpact + reviewScores[i].vulnerability
                total == IF rows = {} THEN 0
                         ELSE LET first == CHOOSE i \in rows : TRUE
                              IN IF rows = {first} THEN quarters(first)
                                 ELSE quarters(first)
                                      + quarters(CHOOSE i \in rows \ {first} : TRUE)
            IN /\ Cardinality(rows) <= 2
               /\ response'.totalReviewers = Cardinality(rows)
               /\ response'.totalReviewers =
                      Cardinality({reviewScores[i].reviewerId : i \in rows})
               /\ response'.averageScore = [null |-> TRUE] <=> rows = {}
               /\ rows # {} =>
                      response'.averageScore.num * 4 * Cardinality(rows)
                          = total * response'.averageScore.den]_vars

AverageOfTwoReviewers ==
    /\ response.op = "getApplicationScores" /\ response.totalReviewers = 2
    /\ response.averageScore = Quotient(14, 8)
    /\ Len(reviewScores) = 2
    /\ reviewScores[1].overallScore = Quotient(4, 4)
    /\ reviewScores[2].overallScore = Quotient(10, 4)

\* ------------------------------------------------------------------------
\* C35: in every reachable state each StudentProfile has exactly one of
\* national ID number and passport number present, and no two profiles
\* share a national ID number or a passport number.
\* ------------------------------------------------------------------------
ExactlyOneIdentification ==
    /\ \A u \in Users :
            profiles[u].exists =>
                (profiles[u].nationalIdNumber # NULL) # (profiles[u].passportNumber # NULL)
    /\ \A u, o \in Users :
            u # o /\ profiles[u].exists /\ profiles[o].exists =>
                /\ profiles[u].nationalIdNumber # NULL
                        => profiles[u].nationalIdNumber # profiles[o].nationalIdNumber
                /\ profiles[u].passportNumber # NULL
                        => profiles[u].passportNumber # profiles[o].passportNumber

\* ------------------------------------------------------------------------
\* C36: student operations are confined to the caller's own applications:
\* updateDraft, uploadApplicationDocument, linkProfileDocument,
\* submitApplication, getApplication and getApplicationHistory called with
\* the id of another profile's application fail with 'Application not
\* found', exactly as for an id that does not exist, and change no state
\* of that application.
\* ------------------------------------------------------------------------
ForeignApplicationNotFound ==
    [][\A u \in BulkUsers, a \in AppIds :
        LET refused(op) ==
                /\ response' = [op |-> op, ok |-> FALSE, message |-> "Application not found",
                                code |-> ErrorCode(op, "Application not found")]
                /\ apps' = apps /\ history' = history /\ appDocs' = appDocs
                /\ links' = links /\ snapshotWrites' = snapshotWrites
        IN profiles[u].exists /\ (~AppExists(a) \/ apps[a].studentProfileId # u) =>
            /\ (\E w \in Narratives : updateDraft(u, a, w)) => refused("updateDraft")
            /\ (\E t \in ApplicationDocumentTypes : uploadApplicationDocument(u, a, t))
                    => refused("uploadApplicationDocument")
            /\ (\E d \in profileDocs : linkProfileDocument(u, a, d))
                    => refused("linkProfileDocument")
            /\ submitApplication(u, a) => refused("submitApplication")
            /\ getApplication(u, a) => refused("getApplication")
            /\ getApplicationHistory(u, a) => refused("getApplicationHistory")]_vars

ForeignDraftUpdateRefused ==
    /\ response.op = "updateDraft" /\ response.message = "Application not found"
    /\ Len(apps) = 2
    /\ apps[1].studentProfileId # apps[2].studentProfileId
    /\ apps[1].status = "PENDING" /\ apps[2].status = "DRAFT"
    /\ apps[2].hardshipNarrative = "w1"

\* ------------------------------------------------------------------------
\* C37
\* ------------------------------------------------------------------------
\* submissions interleave at their awaits with profile updates that run
\* alone; the student creates drafts and uploads documents alone
NextSnapshot ==
    \/ \E u \in Users : createDraft(u)
    \/ \E u \in Users, a \in AppIds, t \in ApplicationDocumentTypes :
            UploadsBelow(a, MaxAppDocs) /\ uploadApplicationDocument(u, a, t)
    \/ \E r \in Req, u \in Users, a \in AppIds : submitApplicationCheck(r, u, a)
    \/ \E r \in Req : submitApplicationCommit(r)
    \/ \E u \in Users, n \in Names : updateProfile(u, n)

SpecSnapshot == Init /\ [][NextSnapshot]_vars

\* C37: when the DRAFT -> PENDING transition of a submission commits, the
\* snapshot stored on the application equals the profile's field values at
\* that moment, whatever updateProfile calls ran between the submission's
\* profile read and its transaction.
SnapshotEqualsProfileAtCommit ==
    [][\A r \in Req :
          submitApplicationCommit(r) =>
              apps'[reqs[r].applicationId].snapshotFullName
                  = profiles[reqs[r].userId].fullName]_vars

\* ------------------------------------------------------------------------
\* C38
\* ------------------------------------------------------------------------
\* C38: bulkUpdate passes no disbursement amount to the per-item status
\* update, so a batch whose target status is DISBURSED fails item by item:
\* updated is 0, failed is the number of ids, success is false, and no
\* application, history row, notification or email changes, even for an
\* application that is APPROVED.
BulkDisbursementAlwaysFails ==
    [][\A admin \in Admins, ids \in BulkBatches :
          bulkUpdate(admin, ids, "DISBURSED") =>
              /\ response'.updated = 0
              /\ response'.failed = Len(ids)
              /\ response'.success = FALSE
              /\ Len(response'.errors) = Len(ids)
              /\ apps' = apps /\ history' = history
              /\ notifications' = notifications /\ emails' = emails]_vars

\* a batch to DISBURSED was answered, one of its items is APPROVED and was
\* refused for the missing amount
ApprovedRefusedInBulkDisbursement ==
    /\ response.op = "bulkUpdate"
    /\ \E i \in 1..Len(response.errors) :
          /\ response.errors[i].error = "Disbursement amount is required for DISBURSED status"
          /\ apps[response.errors[i].applicationId].status = "APPROVED"
          /\ apps[response.errors[i].applicationId].disbursedAmount = Absent

\* ------------------------------------------------------------------------
\* AdminService.updateApplicationPeriod, and activateApplicationPeriod alone
\* ------------------------------------------------------------------------
\* the bodies of PUT /application-periods/:id: dates that move the window or
\* none, and the key isActive absent or sent; updatePeriodSchema does not
\* name isActive, validate() checks the body and hands req.body on as it
\* came
PeriodUpdates == [window : Windows \cup {NULL}, isActive : {Absent, <<TRUE>>, <<FALSE>>}]

\* prisma.applicationPeriod.update({ where: { id }, data: { ...data, ... } })
updateApplicationPeriodData(row, data) ==
    [row EXCEPT !.window = IF data.window = NULL THEN @ ELSE data.window,
                !.isActive = IF data.isActive = Absent THEN @ ELSE data.isActive[1]]

\* the whole handler, alone
updateApplicationPeriod(id, data) ==
    /\ id \notin UNION {Locked(o) : o \in Req}
    /\ IF ~PeriodExists(applicationPeriods, id)
       THEN /\ response' = Answer("updateApplicationPeriod", "Application period not found")
            /\ UNCHANGED applicationPeriods
       ELSE /\ response' = Answer("updateApplicationPeriod", "OK")
            /\ applicationPeriods' = [applicationPeriods EXCEPT
                                         ![id] = updateApplicationPeriodData(@, data)]
    /\ UNCHANGED <<profiles, profileDocs, apps, history, appDocs, links, notifications,
                   emails, snapshotWrites, reviewScores, reqs>>

\* activateApplicationPeriod, the whole handler alone: findUnique, then the
\* transaction that deactivates the active rows and activates the target
activateApplicationPeriod(id) ==
    /\ \A o \in Req : Free(o)
    /\ IF ~PeriodExists(applicationPeriods, id)
       THEN /\ response' = Answer("activateApplicationPeriod", "Application period not found")
            /\ UNCHANGED applicationPeriods
       ELSE /\ response' = Answer("activateApplicationPeriod", "OK")
            /\ applicationPeriods' =
                   periodsActivated(
                       periodsDeactivated(applicationPeriods, ActivePeriods(applicationPeriods)),
                       id)
    /\ UNCHANGED <<profiles, profileDocs, apps, history, appDocs, links, notifications,
                   emails, snapshotWrites, reviewScores, reqs>>

\* the administrator's requests on application periods, one after the other
NextPeriodSequential ==
    \/ \E window \in Windows : createApplicationPeriod(window)
    \/ \E id \in PeriodIds, data \in PeriodUpdates : updateApplicationPeriod(id, data)
    \/ \E id \in PeriodIds : deleteApplicationPeriod(id)
    \/ \E id \in PeriodIds : activateApplicationPeriod(id)

SpecPeriodSequential == Init /\ [][NextPeriodSequential]_vars

\* ------------------------------------------------------------------------
\* C39
\* ------------------------------------------------------------------------
\* C39: the active period cannot be removed. deleteApplicationPeriod on an
\* active period fails and deletes nothing; an activation leaves exactly one
\* active period; and once there is exactly one active period, every later
\* state reached by sequential create, update, delete and activate calls
\* has exactly one active period.
ActivePeriodIsKept ==
    /\ [][\A id \in PeriodIds :
             /\ PeriodExists(applicationPeriods, id)
             /\ applicationPeriods[id].isActive
             /\ deleteApplicationPeriod(id)
             => /\ response'.message = "Cannot delete an active application period"
                /\ applicationPeriods' = applicationPeriods]_vars
    /\ [][\A id \in PeriodIds :
             PeriodExists(applicationPeriods, id) /\ activateApplicationPeriod(id)
             => Cardinality(ActivePeriods(applicationPeriods')) = 1]_vars
    /\ [][Cardinality(ActivePeriods(applicationPeriods)) = 1
             => Cardinality(ActivePeriods(applicationPeriods')) = 1]_vars

====
